---- MODULE Spec2Model ----
(***************************************************************************)
(* GitHub MCP server: the tool router (ToolHandler), the PR normalizer     *)
(* (PRAnalysisService) and the heuristic feedback engine (FeedbackService).*)
(*                                                                         *)
(* Text is modelled by TLA+ strings, handled with Len, SubSeq and \o.      *)
(* Numbers the program keeps with one decimal (summary_score) are integers *)
(* counting tenths.                                                        *)
(***************************************************************************)
EXTENDS Integers, Sequences, FiniteSets, TLC

VARIABLES
    \* ---- feedback engine run (normalize, then generatePRFeedback) ----
    epc,            \* "raw" | "normalized" | "scored"
    rawPR,          \* raw pull request: title, body, draft
    rawFiles,       \* raw file-change list
    rawCommits,     \* raw commit list
    focusAreas,     \* focus areas handed to generatePRFeedback (optional array)
    prAnalysis,     \* PRAnalysis produced by the normalizer, or Absent
    feedback,       \* PRFeedback produced by the engine, or Absent
    \* ---- assessChangeComplexity applied to arbitrary arguments ----
    ccTotal, ccFiles, ccResult,
    \* ---- one tools/call request served by the tool router ----
    pc,             \* "idle" | "awaiting" | "analyzed" | "done"
    call,           \* the request: tool name and arguments
    fetch,          \* the promises of the gateway fetches, by name
    all,            \* the Promise.all over the three fetches of an analysis
    analysisResult, \* how analyzePullRequest ended: returned or thrown
    raised,         \* the error thrown inside the handler, or NoError
    gatewayCalls,   \* invocations of the gateway's fetches
    feedbackCalls,  \* invocations of generatePRFeedback
    responses,      \* responses returned for the request
    \* ---- the normalizer's and the engine's text functions applied to a text ----
    txt,            \* the text: a description, a file name or a commit message
    applied,        \* the applications made so far
    linkedIssues,   \* extractLinkedIssues(txt), first call
    linkedAgain,    \* extractLinkedIssues(txt), second call
    testFile,       \* isTestFile(txt)
    mergeCommit,    \* isMergeCommit(txt)
    \* ---- estimateReviewTime applied to a pull request that grows ----
    rtpc,           \* "off" | "input" | "estimated"
    rtFiles,        \* number of changed files
    rtTotal,        \* diff_summary.total_changes
    reviewTime,     \* estimateReviewTime of that pull request, once estimated
    \* ---- repeated invocations of generatePRFeedback on shared PRAnalysis objects ----
    analyses,       \* the PRAnalysis objects the callers hold
    invocations,    \* the invocations made so far: input, focus areas, result
    \* ---- one call of a gateway method (GitHubRepository) ----
    gpc,            \* "off" | "idle" | "awaiting" | "returned"
    gcall,          \* the method called and its arguments
    gremote,        \* the remote calls the method makes, by name
    gall,           \* the Promise.all of getPullRequestStatus
    gresult,        \* how the method ended: a value returned or an error thrown
    \* ---- the test client (mcp-client.js): requests, responses and timeouts ----
    cpc,            \* "off" | "connected"
    messageId,      \* this.messageId
    issued,         \* the ids given to requests, in order
    pendingRequests,\* the keys of this.pendingRequests
    timers,         \* the requests whose 15-second timer has not fired yet
    settlements,    \* by request id: the calls of its promise's resolve and reject
    delivered,      \* number of lines received from the server
    \* ---- the server process (index.ts): start-up, service and shutdown ----
    spc,            \* "off" | "constructed" | "checking" | "connecting" | "running" | "exited"
    isConnected,    \* GitHubMCPServer.isConnected
    transport,      \* "unconnected" | "connecting" | "connected" | "failed"
    healthStatus,   \* what healthCheck returned, once it has
    startupError,   \* the error run() threw, or NoError
    processEvent,   \* the signal or the uncaught failure the process handled, or ""
    exit,           \* whether the process has exited, and its exit code
    served          \* requests handled over the transport

engineVars == <<epc, rawPR, rawFiles, rawCommits, focusAreas, prAnalysis, feedback>>
ccVars == <<ccTotal, ccFiles, ccResult>>
routerVars ==
    <<pc, call, fetch, all, analysisResult, raised, gatewayCalls, feedbackCalls, responses>>
textVars == <<txt, applied, linkedIssues, linkedAgain, testFile, mergeCommit>>
timeVars == <<rtpc, rtFiles, rtTotal, reviewTime>>
callVars == <<analyses, invocations>>
gatewayVars == <<gpc, gcall, gremote, gall, gresult>>
clientVars ==
    <<cpc, messageId, issued, pendingRequests, timers, settlements, delivered>>
serverVars ==
    <<spc, isConnected, transport, healthStatus, startupError, processEvent, exit, served>>
firstVars == <<engineVars, ccVars, routerVars, textVars>>
otherVars == <<timeVars, callVars, gatewayVars, clientVars, serverVars>>
exceptTimeVars == <<firstVars, callVars, gatewayVars, clientVars, serverVars>>
exceptCallVars == <<firstVars, timeVars, gatewayVars, clientVars, serverVars>>
exceptGatewayVars == <<firstVars, timeVars, callVars, clientVars, serverVars>>
exceptClientVars == <<firstVars, timeVars, callVars, gatewayVars, serverVars>>
exceptServerVars == <<firstVars, timeVars, callVars, gatewayVars, clientVars>>
vars == <<engineVars, ccVars, routerVars, textVars, otherVars>>

Absent == "absent"

\* an optional array argument: undefined, or the array
NoAreas == [present |-> FALSE, items |-> <<>>]
Areas(items) == [present |-> TRUE, items |-> items]

(***************************************************************************)
(* Bounds of the explored inputs.                                          *)
(***************************************************************************)
MaxFiles == 20          \* largest number of filler files appended to a file list
MaxCommits == 20        \* largest number of filler commits appended to a commit list
MaxBody == 201          \* longest pull-request body
MaxTotal == 501         \* largest total_changes handed to assessChangeComplexity
MaxCount == 26          \* largest files_count handed to assessChangeComplexity

(***************************************************************************)
(* String primitives of the JavaScript runtime.                            *)
(***************************************************************************)
\* String.prototype.charAt: the empty string outside the text
charAt(s, i) == IF 1 <= i /\ i <= Len(s) THEN SubSeq(s, i, i) ELSE ""

includes(s, sub) ==
    \E i \in 1..(Len(s) - Len(sub) + 1) : SubSeq(s, i, i + Len(sub) - 1) = sub

startsWith(s, p) == Len(p) <= Len(s) /\ SubSeq(s, 1, Len(p)) = p

endsWith(s, p) == Len(p) <= Len(s) /\ SubSeq(s, Len(s) - Len(p) + 1, Len(s)) = p

UpperAlphabet == "ABCDEFGHIJKLMNOPQRSTUVWXYZ"
LowerAlphabet == "abcdefghijklmnopqrstuvwxyz"

LowerOf == [u \in {SubSeq(UpperAlphabet, i, i) : i \in 1..26} |->
               LET i == CHOOSE k \in 1..26 : SubSeq(UpperAlphabet, k, k) = u
               IN  SubSeq(LowerAlphabet, i, i)]

lowerChar(c) == IF c \in DOMAIN LowerOf THEN LowerOf[c] ELSE c

RECURSIVE toLowerCase(_)
toLowerCase(s) ==
    IF s = "" THEN ""
    ELSE toLowerCase(SubSeq(s, 1, Len(s) - 1)) \o lowerChar(charAt(s, Len(s)))

isSpace(c) == c \in {" ", "\t", "\n", "\r", "\f"}

isDigit(c) == c # "" /\ includes("0123456789", c)

RECURSIVE trimStart(_)
trimStart(s) ==
    IF s # "" /\ isSpace(charAt(s, 1)) THEN trimStart(SubSeq(s, 2, Len(s))) ELSE s

RECURSIVE trimEnd(_)
trimEnd(s) ==
    IF s # "" /\ isSpace(charAt(s, Len(s))) THEN trimEnd(SubSeq(s, 1, Len(s) - 1)) ELSE s

trim(s) == trimEnd(trimStart(s))

digitValue(c) == CHOOSE d \in 0..9 : charAt("0123456789", d + 1) = c

RECURSIVE parseInt(_)
parseInt(s) ==
    IF s = "" THEN 0
    ELSE parseInt(SubSeq(s, 1, Len(s) - 1)) * 10 + digitValue(charAt(s, Len(s)))

\* some(), every() and filter().length over a sequence
some(seq, P(_)) == \E i \in 1..Len(seq) : P(seq[i])
every(seq, P(_)) == \A i \in 1..Len(seq) : P(seq[i])
countIf(seq, P(_)) == Cardinality({i \in 1..Len(seq) : P(seq[i])})

\* reduce((sum, x) => sum + x, 0) over a sequence of numbers
RECURSIVE sumOf(_)
sumOf(seq) ==
    IF seq = <<>> THEN 0 ELSE Head(seq) + sumOf(Tail(seq))

Min(a, b) == IF a <= b THEN a ELSE b
Max(a, b) == IF a >= b THEN a ELSE b

seqContains(seq, x) == \E i \in 1..Len(seq) : seq[i] = x

\* Array.prototype.sort((a, b) => a - b)
RECURSIVE sortAscending(_)

\* sortAscending leaving the order of discovery
sortAscendingSkipped(seq) == seq

sortAscending(seq) ==
    IF seq = <<>> THEN <<>>
    ELSE LET m == CHOOSE x \in {seq[i] : i \in 1..Len(seq)} :
                      \A j \in 1..Len(seq) : x <= seq[j]
             k == CHOOSE i \in 1..Len(seq) :
                      seq[i] = m /\ \A j \in 1..(i - 1) : seq[j] # m
         IN  <<m>> \o sortAscending(SubSeq(seq, 1, k - 1) \o SubSeq(seq, k + 1, Len(seq)))

\* [...new Set(array)]: first occurrences, in order
RECURSIVE dedupe(_)

\* dedupe keeping every occurrence
dedupeSkipped(seq) == seq

dedupe(seq) ==
    IF seq = <<>> THEN <<>>
    ELSE LET front == dedupe(SubSeq(seq, 1, Len(seq) - 1))
             last  == seq[Len(seq)]
         IN  IF seqContains(front, last) THEN front ELSE Append(front, last)

(***************************************************************************)
(* Normalizer: PRAnalysisService.                                          *)
(***************************************************************************)
DefaultSanitizeLength == 1000   \* sanitizeString's default bound (title)
DescriptionMaxLength == 5000
CommitMessageMaxLength == 1000

\* utils sanitizeString(str, maxLength): the text bounded to maxLength
sanitizeString(str, maxLength) == SubSeq(str, 1, Min(Len(str), maxLength))

\* categorizeFileSize without its xl band
categorizeFileSizeNoXl(changes) ==
    IF changes <= 10 THEN "small"
    ELSE IF changes <= 50 THEN "medium"
    ELSE "large"

categorizeFileSize(changes) ==
    IF changes <= 10 THEN "small"
    ELSE IF changes <= 50 THEN "medium"
    ELSE IF changes <= 200 THEN "large"
    ELSE "xl"

\* totalChanges / fileCount <= 50 in IEEE arithmetic: Infinity and NaN
\* (fileCount = 0) compare false
changesPerFileAtMost50(totalChanges, fileCount) ==
    fileCount > 0 /\ totalChanges <= 50 * fileCount

\* assessChangeComplexity whose high band bounds the file count only
assessChangeComplexityLooseHigh(totalChanges, fileCount) ==
    IF totalChanges <= 50 /\ fileCount <= 5 THEN "low"
    ELSE IF totalChanges <= 200 /\ fileCount <= 15
            /\ changesPerFileAtMost50(totalChanges, fileCount) THEN "medium"
    ELSE IF fileCount <= 25 THEN "high"
    ELSE "very_high"

\* assessChangeComplexity whose low band excludes its boundary
assessChangeComplexityStrictLow(totalChanges, fileCount) ==
    IF totalChanges < 50 /\ fileCount < 5 THEN "low"
    ELSE IF totalChanges <= 200 /\ fileCount <= 15
            /\ changesPerFileAtMost50(totalChanges, fileCount) THEN "medium"
    ELSE IF totalChanges <= 500 /\ fileCount <= 25 THEN "high"
    ELSE "very_high"

assessChangeComplexity(totalChanges, fileCount) ==
    IF totalChanges <= 50 /\ fileCount <= 5 THEN "low"
    ELSE IF totalChanges <= 200 /\ fileCount <= 15
            /\ changesPerFileAtMost50(totalChanges, fileCount) THEN "medium"
    ELSE IF totalChanges <= 500 /\ fileCount <= 25 THEN "high"
    ELSE "very_high"

isMergeCommit(message) ==
    \/ startsWith(toLowerCase(message), "merge ")
    \/ includes(message, "Merge pull request")
    \/ includes(message, "Merge branch")

IssueKeywords ==
    {"close", "closes", "closed", "fix", "fixes", "fixed",
     "resolve", "resolves", "resolved"}

NoMatch == [ok |-> FALSE, from |-> 0, to |-> 0]

\* last index of the run of characters satisfying digit/space that starts at i
RECURSIVE digitsEnd(_, _)
digitsEnd(body, i) ==
    IF isDigit(charAt(body, i + 1)) THEN digitsEnd(body, i + 1) ELSE i

RECURSIVE spacesEnd(_, _)
spacesEnd(body, i) ==
    IF isSpace(charAt(body, i + 1)) THEN spacesEnd(body, i + 1) ELSE i

\* /#(\d+)/g tried at position i
matchHashIssue(body, i) ==
    IF charAt(body, i) = "#" /\ isDigit(charAt(body, i + 1))
    THEN [ok |-> TRUE, from |-> i + 1, to |-> digitsEnd(body, i + 1)]
    ELSE NoMatch

\* /(?:close[sd]?|fix(?:e[sd])?|resolve[sd]?)\s+#(\d+)/gi tried at position i
matchKeywordIssue(body, i) ==
    IF lowerChar(charAt(body, i)) \notin {"c", "f", "r"} THEN NoMatch
    ELSE LET kws == {k \in IssueKeywords :
                        /\ i + Len(k) <= Len(body)
                        /\ toLowerCase(SubSeq(body, i, i + Len(k) - 1)) = k
                        /\ isSpace(charAt(body, i + Len(k)))}
         IN  IF kws = {} THEN NoMatch
             ELSE LET k == CHOOSE w \in kws : TRUE
                      h == spacesEnd(body, i + Len(k)) + 1
                  IN  matchHashIssue(body, h)

matchIssuePattern(pattern, body, i) ==
    IF pattern = 1 THEN matchKeywordIssue(body, i) ELSE matchHashIssue(body, i)

\* while ((match = pattern.exec(body)) !== null) { ... }, from lastIndex i:
\* exec finds the leftmost match at or after lastIndex and moves lastIndex
\* behind it
RECURSIVE execAll(_, _, _, _)
execAll(pattern, body, i, issues) ==
    LET starts == {j \in i..Len(body) : matchIssuePattern(pattern, body, j).ok}
    IN  IF starts = {} THEN issues
        ELSE LET first == CHOOSE j \in starts : \A k \in starts : j <= k
                 m == matchIssuePattern(pattern, body, first)
                 issueNumber == parseInt(SubSeq(body, m.from, m.to))
             IN  execAll(pattern, body, m.to + 1,
                         IF seqContains(issues, issueNumber) THEN issues
                         ELSE Append(issues, issueNumber))

extractLinkedIssues(body) ==
    sortAscending(execAll(2, body, 1, execAll(1, body, 1, <<>>)))

analyzeFiles(files) ==
    [i \in 1..Len(files) |->
        LET totalChanges == files[i].additions + files[i].deletions
        IN  [filename      |-> files[i].filename,
             status        |-> files[i].status,
             additions     |-> files[i].additions,
             deletions     |-> files[i].deletions,
             changes       |-> totalChanges,
             size_category |-> categorizeFileSize(totalChanges)]]

analyzeCommits(commits) ==
    [i \in 1..Len(commits) |->
        [message         |-> sanitizeString(commits[i].message, CommitMessageMaxLength),
         is_merge_commit |-> isMergeCommit(commits[i].message)]]


\* generateDiffSummary counting the additions alone as changes
generateDiffSummaryAdditionsOnly(files) ==
    LET totalAdditions == sumOf([i \in 1..Len(files) |-> files[i].additions])
        totalDeletions == sumOf([i \in 1..Len(files) |-> files[i].deletions])
    IN  [total_additions   |-> totalAdditions,
         total_deletions   |-> totalDeletions,
         total_changes     |-> totalAdditions,
         files_count       |-> Len(files),
         change_complexity |-> assessChangeComplexity(totalAdditions, Len(files))]

generateDiffSummary(files) ==
    LET totalAdditions == sumOf([i \in 1..Len(files) |-> files[i].additions])
        totalDeletions == sumOf([i \in 1..Len(files) |-> files[i].deletions])
        totalChanges   == totalAdditions + totalDeletions
    IN  [total_additions   |-> totalAdditions,
         total_deletions   |-> totalDeletions,
         total_changes     |-> totalChanges,
         files_count       |-> Len(files),
         change_complexity |-> assessChangeComplexity(totalChanges, Len(files))]

extractMetadata(pr) ==
    [linked_issues |-> extractLinkedIssues(pr.body)]

\* analyzePullRequest once the three fetches have delivered their data
\* (pr.body is "" where the remote body is null)
buildAnalysis(pullRequest, files, commits) ==
    [title         |-> sanitizeString(pullRequest.title, DefaultSanitizeLength),
     description   |-> sanitizeString(pullRequest.body, DescriptionMaxLength),
     author        |-> pullRequest.user.login,
     draft         |-> pullRequest.draft,
     files_changed |-> analyzeFiles(files),
     commits       |-> analyzeCommits(commits),
     diff_summary  |-> generateDiffSummary(files),
     metadata      |-> extractMetadata(pullRequest)]

(***************************************************************************)
(* Heuristic scoring engine: FeedbackService.                              *)
(***************************************************************************)
FocusArea ==
    {"performance", "security", "accessibility", "maintainability",
     "testing", "documentation", "architecture", "code_style"}

when(cond, x) == IF cond THEN <<x>> ELSE <<>>

\* Array.prototype.join(', ')
RECURSIVE join(_)
join(strs) ==
    IF strs = <<>> THEN ""
    ELSE IF Len(strs) = 1 THEN strs[1]
    ELSE strs[1] \o ", " \o join(Tail(strs))

TestExtensions == {"ts", "js", "tsx", "jsx", "py", "java", "rb", "go", "rs"}

\* /\.(test|spec)\.(ts|js|tsx|jsx|py|java|rb|go|rs)$/ or a test directory
isTestFile(filename) ==
    \/ \E t \in {"test", "spec"}, e \in TestExtensions :
            endsWith(filename, "." \o t \o "." \o e)
    \/ includes(filename, "/test/")
    \/ includes(filename, "/__tests__/")
    \/ includes(filename, "/tests/")

SecurityPatterns ==
    {"auth", "password", "token", "secret", "credential",
     "security", "permission", "privilege", "crypto", "encrypt"}

isSecuritySensitiveFile(filename) ==
    LET lower == toLowerCase(filename)
    IN  \E pattern \in SecurityPatterns : includes(lower, pattern)

isConfigurationFile(filename) ==
    \/ includes(filename, "config")
    \/ endsWith(filename, ".env")
    \/ endsWith(filename, ".yml")
    \/ endsWith(filename, ".yaml")
    \/ endsWith(filename, ".properties")

DependencyFiles ==
    {"package.json", "yarn.lock", "package-lock.json", "requirements.txt",
     "Pipfile", "poetry.lock", "Cargo.toml", "Cargo.lock", "go.mod", "go.sum"}

isDependencyFile(filename) == filename \in DependencyFiles

\* password, secret, token, api[_-]?key, private[_-]?key, credential (/i)
SuspiciousPatterns ==
    {"password", "secret", "token", "apikey", "api_key", "api-key",
     "privatekey", "private_key", "private-key", "credential"}

hasSuspiciousContent(text) ==
    LET lower == toLowerCase(text)
    IN  \E pattern \in SuspiciousPatterns : includes(lower, pattern)

isDocumentationFile(filename) ==
    \/ endsWith(filename, ".md")
    \/ includes(filename, "README")
    \/ includes(filename, "docs/")

isUIFile(filename) ==
    \E e \in {"tsx", "jsx", "vue", "svelte", "html", "css", "scss"} :
        endsWith(filename, "." \o e)

hasUIChanges(analysis) ==
    \E i \in 1..Len(analysis.files_changed) : isUIFile(analysis.files_changed[i].filename)

\* /^(feat|feature)/i or /add|new/i
isNewFeatureMessage(message) ==
    LET lower == toLowerCase(message)
    IN  startsWith(lower, "feat") \/ includes(lower, "add") \/ includes(lower, "new")

hasNewFeatures(analysis) ==
    \E i \in 1..Len(analysis.commits) : isNewFeatureMessage(analysis.commits[i].message)

hasBreakingChanges(analysis) ==
    \E i \in 1..Len(analysis.commits) :
        \/ includes(analysis.commits[i].message, "BREAKING")
        \/ includes(analysis.commits[i].message, "!:")

ConventionalTypes ==
    {"feat", "fix", "docs", "style", "refactor", "test", "chore",
     "perf", "ci", "build", "revert"}

\* "." of a regular expression: any character but a line terminator
isDot(c) == c # "" /\ c \notin {"\n", "\r"}

\* ": .+" at position i
matchesColonSubject(message, i) ==
    /\ charAt(message, i) = ":"
    /\ charAt(message, i + 1) = " "
    /\ isDot(charAt(message, i + 2))

\* /^(feat|fix|...|revert)(\(.+\))?: .+/
isConventionalCommit(message) ==
    \E t \in ConventionalTypes :
        /\ startsWith(message, t)
        /\ LET i == Len(t) + 1
           IN  \/ matchesColonSubject(message, i)
               \/ /\ charAt(message, i) = "("
                  /\ \E j \in (i + 2)..Len(message) :
                        /\ charAt(message, j) = ")"
                        /\ \A k \in (i + 1)..(j - 1) : isDot(charAt(message, k))
                        /\ matchesColonSubject(message, j + 1)

NonDescriptiveTitles ==
    {"fix", "update", "change", "modify", "wip", "temp", "test", "debug"}

isDescriptiveTitle(title) == toLowerCase(trim(title)) \notin NonDescriptiveTitles

\* scoreToGrade with strict comparisons
scoreToGradeStrict(score) ==
    IF score > 9 THEN "A"
    ELSE IF score > 7 THEN "B"
    ELSE IF score > 5 THEN "C"
    ELSE IF score > 3 THEN "D"
    ELSE "F"

scoreToGrade(score) ==
    IF score >= 9 THEN "A"
    ELSE IF score >= 7 THEN "B"
    ELSE IF score >= 5 THEN "C"
    ELSE IF score >= 3 THEN "D"
    ELSE "F"


\* calculateSecurityRiskLevel looking at the considerations first
calculateSecurityRiskLevelByCount(considerationsCount, vulnerabilitiesCount) ==
    IF considerationsCount >= 3 THEN "medium"
    ELSE IF vulnerabilitiesCount > 0 THEN "high"
    ELSE "low"

\* calculateSecurityRiskLevel rating a vulnerability with three considerations
\* critical
calculateSecurityRiskLevelWithCritical(considerationsCount, vulnerabilitiesCount) ==
    IF vulnerabilitiesCount > 0 /\ considerationsCount >= 3 THEN "critical"
    ELSE IF vulnerabilitiesCount > 0 THEN "high"
    ELSE IF considerationsCount >= 3 THEN "medium"
    ELSE "low"

calculateSecurityRiskLevel(considerationsCount, vulnerabilitiesCount) ==
    IF vulnerabilitiesCount > 0 THEN "high"
    ELSE IF considerationsCount >= 3 THEN "medium"
    ELSE IF considerationsCount >= 1 THEN "low"
    ELSE "low"

hasTestFiles(files) == \E i \in 1..Len(files) : isTestFile(files[i].filename)
hasDocumentationFiles(files) == \E i \in 1..Len(files) : isDocumentationFile(files[i].filename)
xlFileCount(files) == Cardinality({i \in 1..Len(files) : files[i].size_category = "xl"})

StrengthMarker == "[x] "    \* stands for the check-mark prefix of a strength comment

\* The rules of assessCodeQuality, each <<deduction, concerns, strengths>>
NoEffect == <<0, <<>>, <<>>>>
Concern(deduction, text) == <<deduction, <<text>>, <<>>>>
Strength(text) == <<0, <<>>, <<text>>>>

\* sizeRule taking 3 points for a large pull request
sizeRuleDeductingThree(total) ==
    IF total > 500
    THEN Concern(3, "Large PR with many changes - consider breaking into smaller PRs")
    ELSE IF total < 50 THEN Strength("Focused PR with manageable scope")
    ELSE NoEffect

sizeRule(total) ==
    IF total > 500
    THEN Concern(2, "Large PR with many changes - consider breaking into smaller PRs")
    ELSE IF total < 50 THEN Strength("Focused PR with manageable scope")
    ELSE NoEffect

fileCountRule(fileCount) ==
    IF fileCount > 20
    THEN Concern(1, "Many files changed - ensure changes are related and cohesive")
    ELSE IF fileCount <= 5 THEN Strength("Limited number of files changed, easier to review")
    ELSE NoEffect

\* testsRule taking the documentation rule's threshold
testsRuleThreshold100(hasTests, total) ==
    IF ~hasTests /\ total > 100
    THEN Concern(2, "No test files detected - consider adding tests for new functionality")
    ELSE IF hasTests THEN Strength("Includes test files")
    ELSE NoEffect

testsRule(hasTests, total) ==
    IF ~hasTests /\ total > 50
    THEN Concern(2, "No test files detected - consider adding tests for new functionality")
    ELSE IF hasTests THEN Strength("Includes test files")
    ELSE NoEffect

documentationRule(hasDocumentation, total) ==
    IF ~hasDocumentation /\ total > 100
    THEN Concern(1, "Consider updating documentation for significant changes")
    ELSE IF hasDocumentation THEN Strength("Includes documentation updates")
    ELSE NoEffect

descriptionRule(length) ==
    IF length < 50
    THEN Concern(1, "PR description is brief - consider adding more context")
    ELSE IF length > 200 THEN Strength("Comprehensive PR description provided")
    ELSE NoEffect

commitCountRule(commitCount) ==
    IF commitCount > 20
    THEN Concern(1, "Many commits - consider squashing related commits")
    ELSE IF commitCount <= 5 THEN Strength("Reasonable number of commits")
    ELSE NoEffect

largeFilesRule(largeFiles) ==
    IF largeFiles > 0
    THEN Concern(1, ToString(largeFiles) \o " files with extensive changes - review carefully")
    ELSE NoEffect

clampScore(score) == Max(0, Min(10, score))

assessCodeQuality(analysis) ==
    LET total == analysis.diff_summary.total_changes
        files == analysis.files_changed
        rules == <<sizeRule(total),
                   fileCountRule(Len(files)),
                   testsRule(hasTestFiles(files), total),
                   documentationRule(hasDocumentationFiles(files), total),
                   descriptionRule(Len(analysis.description)),
                   commitCountRule(Len(analysis.commits)),
                   largeFilesRule(xlFileCount(files))>>
        score      == 10 - sumOf([r \in 1..Len(rules) |-> rules[r][1]])
        concerns   == rules[1][2] \o rules[2][2] \o rules[3][2] \o rules[4][2]
                      \o rules[5][2] \o rules[6][2] \o rules[7][2]
        strengths  == rules[1][3] \o rules[2][3] \o rules[3][3] \o rules[4][3]
                      \o rules[5][3] \o rules[6][3] \o rules[7][3]
        finalScore == clampScore(score)
    IN  [score     |-> finalScore,
         grade     |-> scoreToGrade(finalScore),
         comments  |-> [i \in 1..Len(strengths) |-> StrengthMarker \o strengths[i]] \o concerns,
         strengths |-> strengths,
         concerns  |-> concerns]

filenamesWhere(files, P(_)) ==
    LET RECURSIVE pick(_)
        pick(i) == IF i > Len(files) THEN <<>>
                   ELSE when(P(files[i].filename), files[i].filename) \o pick(i + 1)
    IN  pick(1)

analyzeSecurityConsiderations(analysis) ==
    LET files == analysis.files_changed
        securitySensitiveFiles == filenamesWhere(files, isSecuritySensitiveFile)
        configFiles     == filenamesWhere(files, isConfigurationFile)
        dependencyFiles == filenamesWhere(files, isDependencyFile)
        suspiciousCommits ==
            {i \in 1..Len(analysis.commits) : hasSuspiciousContent(analysis.commits[i].message)}
        considerations ==
            when(Len(securitySensitiveFiles) > 0,
                 "Security-sensitive files modified: " \o join(securitySensitiveFiles))
            \o when(Len(configFiles) > 0,
                 "Configuration files modified - verify no sensitive data is exposed")
            \o when(Len(dependencyFiles) > 0,
                 "Dependencies modified - ensure packages are from trusted sources")
        recommendations ==
            when(Len(securitySensitiveFiles) > 0, "Ensure thorough security review and testing")
            \o when(Len(configFiles) > 0, "Review configuration changes for security implications")
            \o when(Len(dependencyFiles) > 0, "Run security audit on new dependencies")
        vulnerabilities ==
            when(suspiciousCommits # {},
                 [type           |-> "Potential secret in commit message",
                  severity       |-> "medium",
                  description    |-> "Commit messages may contain sensitive information",
                  file           |-> "commit-messages",
                  recommendation |-> "Review commit messages for exposed secrets"])
    IN  [risk_level            |-> calculateSecurityRiskLevel(Len(considerations), Len(vulnerabilities)),
         considerations        |-> considerations,
         vulnerabilities_found |-> vulnerabilities,
         recommendations       |-> recommendations]

focusSuggestions(analysis, area) ==
    IF area = "performance"
    THEN <<"Consider adding performance benchmarks for critical code paths",
           "Review for potential memory leaks or inefficient algorithms">>
    ELSE IF area = "accessibility"
    THEN IF hasUIChanges(analysis)
         THEN <<"Verify accessibility compliance (ARIA labels, keyboard navigation)",
                "Test with screen readers and accessibility tools">>
         ELSE <<>>
    ELSE IF area = "documentation"
    THEN <<"Update API documentation if public interfaces changed",
           "Consider adding inline code comments for complex logic">>
    ELSE IF area = "testing"
    THEN <<"Add unit tests for new functionality",
           "Consider integration tests for complex workflows">>
    ELSE <<>>

RECURSIVE forEachFocusSuggestions(_, _)
forEachFocusSuggestions(analysis, areas) ==
    IF areas = <<>> THEN <<>>
    ELSE focusSuggestions(analysis, Head(areas)) \o forEachFocusSuggestions(analysis, Tail(areas))

generateSuggestions(analysis, areas) ==
    LET suggestions ==
            (IF areas.present THEN forEachFocusSuggestions(analysis, areas.items) ELSE <<>>)
            \o (IF hasNewFeatures(analysis)
                THEN <<"Consider adding feature flags for gradual rollout",
                       "Ensure error handling covers edge cases for new functionality">>
                ELSE <<>>)
            \o (IF hasBreakingChanges(analysis)
                THEN <<"Update migration guide for breaking changes",
                       "Consider deprecation warnings before removing functionality">>
                ELSE <<>>)
            \o (IF analysis.diff_summary.change_complexity = "very_high"
                THEN <<"Consider breaking this PR into smaller, focused changes",
                       "Add comprehensive testing for complex changes">>
                ELSE <<>>)
    IN  dedupe(suggestions)

\* the five checks, each <<followed entries, needs_improvement entries>>
conventionalCheck(analysis) ==
    IF \A i \in 1..Len(analysis.commits) : isConventionalCommit(analysis.commits[i].message)
    THEN <<<<"Follows conventional commit format">>, <<>>>>
    ELSE <<<<>>, <<"Consider using conventional commit format">>>>

titleCheck(analysis) ==
    IF Len(analysis.title) > 10 /\ isDescriptiveTitle(analysis.title)
    THEN <<<<"PR has descriptive title">>, <<>>>>
    ELSE <<<<>>, <<"Consider making PR title more descriptive">>>>

fileCountCheck(analysis) ==
    IF Len(analysis.files_changed) <= 15
    THEN <<<<"Reasonable number of files changed">>, <<>>>>
    ELSE <<<<>>, <<>>>>

linkedIssuesCheck(analysis) ==
    IF Len(analysis.metadata.linked_issues) > 0
    THEN <<<<"Links to related issues">>, <<>>>>
    ELSE <<<<>>, <<"Consider linking to related issue or ticket">>>>

draftCheck(analysis) ==
    IF analysis.draft /\ analysis.diff_summary.total_changes > 200
    THEN <<<<"Uses draft status for work-in-progress">>, <<>>>>
    ELSE <<<<>>, <<>>>>


\* checkBestPractices keeping only the checks that can add nothing
checkBestPracticesOptionalOnly(analysis) ==
    [followed          |-> fileCountCheck(analysis)[1] \o draftCheck(analysis)[1],
     needs_improvement |-> <<>>]

checkBestPractices(analysis) ==
    LET checks == <<conventionalCheck(analysis), titleCheck(analysis),
                    fileCountCheck(analysis), linkedIssuesCheck(analysis),
                    draftCheck(analysis)>>
    IN  [followed          |-> checks[1][1] \o checks[2][1] \o checks[3][1]
                               \o checks[4][1] \o checks[5][1],
         needs_improvement |-> checks[1][2] \o checks[2][2] \o checks[3][2]
                               \o checks[4][2] \o checks[5][2]]

calculateCognitiveComplexity(analysis) ==
    LET complexityScore == analysis.diff_summary.total_changes
                           + analysis.diff_summary.files_count * 10
    IN  IF complexityScore > 500 THEN "high"
        ELSE IF complexityScore > 200 THEN "medium"
        ELSE "low"


\* assessChangeRisk with each band one factor higher
assessChangeRiskLenient(analysis) ==
    LET factors ==
            <<analysis.diff_summary.total_changes > 300,
              Len(analysis.files_changed) > 15,
              \E i \in 1..Len(analysis.files_changed) :
                  isSecuritySensitiveFile(analysis.files_changed[i].filename),
              \E i \in 1..Len(analysis.commits) : hasBreakingChanges(analysis)>>
        riskFactors == Cardinality({k \in 1..4 : factors[k]})
    IN  IF riskFactors >= 4 THEN "high"
        ELSE IF riskFactors >= 3 THEN "medium"
        ELSE "low"

assessChangeRisk(analysis) ==
    LET factors ==
            <<analysis.diff_summary.total_changes > 300,
              Len(analysis.files_changed) > 15,
              \E i \in 1..Len(analysis.files_changed) :
                  isSecuritySensitiveFile(analysis.files_changed[i].filename),
              \E i \in 1..Len(analysis.commits) : hasBreakingChanges(analysis)>>
        riskFactors == Cardinality({k \in 1..4 : factors[k]})
    IN  IF riskFactors >= 3 THEN "high"
        ELSE IF riskFactors >= 2 THEN "medium"
        ELSE "low"

generateTestingRequirements(analysis) ==
    when(hasNewFeatures(analysis), "Unit tests for new functionality")
    \o when(hasUIChanges(analysis), "UI/Component testing")
    \o when(\E i \in 1..Len(analysis.files_changed) :
                isSecuritySensitiveFile(analysis.files_changed[i].filename),
            "Security testing")
    \o when(analysis.diff_summary.change_complexity \in {"high", "very_high"},
            "Integration testing")

analyzeComplexity(analysis) ==
    [cognitive_complexity |-> calculateCognitiveComplexity(analysis),
     change_risk          |-> assessChangeRisk(analysis),
     testing_requirements |-> generateTestingRequirements(analysis)]

analyzeFocusArea(analysis, focusArea) ==
    IF focusArea = "performance"
    THEN <<"Review algorithmic complexity of changes", "Check for potential memory leaks",
           "Consider caching strategies if applicable">>
    ELSE IF focusArea = "security"
    THEN <<"Validate input sanitization", "Check for SQL injection vulnerabilities",
           "Review authentication and authorization changes">>
    ELSE IF focusArea = "accessibility"
    THEN <<"Ensure keyboard navigation works", "Verify ARIA labels are present",
           "Test with screen readers">>
    ELSE IF focusArea = "maintainability"
    THEN <<"Check code complexity metrics", "Ensure proper error handling",
           "Review code organization and structure">>
    ELSE IF focusArea = "testing"
    THEN <<"Add unit tests for new code", "Update integration tests if needed",
           "Consider edge case testing">>
    ELSE <<>>

generateFocusAreaAnalysis(analysis, areas) ==
    [area \in {areas[i] : i \in 1..Len(areas)} |-> analyzeFocusArea(analysis, area)]


\* generateOverallAssessment choosing its closing clause by the score alone
generateOverallAssessmentByScore(analysis, codeQuality, securityAssessment) ==
    "This PR has " \o ToString(Len(analysis.files_changed)) \o " files modified. "
    \o (IF codeQuality.score >= 8
        THEN "Ready for review and merge with minimal concerns."
        ELSE IF codeQuality.score >= 6
        THEN "Requires minor improvements before merge."
        ELSE "Requires significant improvements before merge.")

generateOverallAssessment(analysis, codeQuality, securityAssessment) ==
    LET nConsiderations == Len(securityAssessment.considerations)
    IN  (IF codeQuality.score >= 8 THEN "This PR demonstrates high code quality with "
         ELSE IF codeQuality.score >= 6 THEN "This PR shows good code quality with "
         ELSE "This PR has room for improvement in code quality with ")
        \o ToString(Len(analysis.files_changed)) \o " files modified ("
        \o ToString(analysis.diff_summary.total_changes) \o " total line changes). "
        \o (IF nConsiderations > 0
            THEN ToString(nConsiderations) \o " security consideration"
                 \o (IF nConsiderations > 1 THEN "s" ELSE "") \o " identified. "
            ELSE "")
        \o (IF codeQuality.score >= 8 /\ securityAssessment.risk_level = "low"
            THEN "Ready for review and merge with minimal concerns."
            ELSE IF codeQuality.score >= 6
            THEN "Requires minor improvements before merge."
            ELSE "Requires significant improvements before merge.")


\* riskPenalty taking a high risk for a medium one
riskPenaltyFlat(riskLevel) ==
    IF riskLevel = "critical" THEN 3
    ELSE IF riskLevel = "low" THEN 0
    ELSE 1

riskPenalty(riskLevel) ==
    IF riskLevel = "critical" THEN 3
    ELSE IF riskLevel = "high" THEN 2
    ELSE IF riskLevel = "medium" THEN 1
    ELSE 0

NaN == "NaN"

\* Math.round(num / den) for den > 0: floor(num / den + 1/2)
roundRatio(num, den) == (2 * num + den) \div (2 * den)

\* calculateSummaryScore without its final clamp
calculateSummaryScoreUnclamped(codeQuality, securityAssessment, bestPractices) ==
    LET f == Len(bestPractices.followed)
        n == Len(bestPractices.needs_improvement)
        base == codeQuality.score - riskPenalty(securityAssessment.risk_level)
    IN  IF f + n = 0 THEN NaN
        ELSE roundRatio(10 * (base * (f + n) + (f - n)), f + n)

\* the result in tenths; 0/0 makes the ratio, and so the result, NaN
calculateSummaryScore(codeQuality, securityAssessment, bestPractices) ==
    LET f == Len(bestPractices.followed)
        n == Len(bestPractices.needs_improvement)
        base == codeQuality.score - riskPenalty(securityAssessment.risk_level)
    IN  IF f + n = 0 THEN NaN
        ELSE \* score = base + (f/(f+n) - 0.5) * 2 = base + (f - n)/(f + n)
             LET tenths == roundRatio(10 * (base * (f + n) + (f - n)), f + n)
             IN  Max(0, Min(100, tenths))

\* the estimate without the cap on the time for changed lines
estimateReviewTimeUncapped(analysis) ==
    LET baseTime   == 2 * 15
        fileTime   == 2 * (Len(analysis.files_changed) * 3)
        changeTime == analysis.diff_summary.total_changes
    IN  roundRatio(baseTime + fileTime + changeTime, 2)

\* Math.round(15 + 3 * files + min(0.5 * total, 60)), computed in half minutes
estimateReviewTime(analysis) ==
    LET baseTime   == 2 * 15
        fileTime   == 2 * (Len(analysis.files_changed) * 3)
        changeTime == Min(analysis.diff_summary.total_changes, 2 * 60)
    IN  roundRatio(baseTime + fileTime + changeTime, 2)

\* a service that keeps a count of its invocations and lets it into the result
generatePRFeedbackRemembering(analysis, areas) ==
    LET codeQuality        == assessCodeQuality(analysis)
        securityAssessment == analyzeSecurityConsiderations(analysis)
        bestPractices      == checkBestPractices(analysis)
    IN  [overall_assessment    |-> generateOverallAssessment(analysis, codeQuality, securityAssessment),
         summary_score         |-> calculateSummaryScore(codeQuality, securityAssessment, bestPractices),
         code_quality          |-> codeQuality,
         security_assessment   |-> securityAssessment,
         suggestions           |-> generateSuggestions(analysis, areas),
         best_practices        |-> bestPractices,
         focus_area_analysis   |-> IF areas.present
                                   THEN generateFocusAreaAnalysis(analysis, areas.items)
                                   ELSE Absent,
         estimated_review_time |-> estimateReviewTime(analysis) + Len(invocations),
         complexity_analysis   |-> analyzeComplexity(analysis)]

generatePRFeedback(analysis, areas) ==
    LET codeQuality        == assessCodeQuality(analysis)
        securityAssessment == analyzeSecurityConsiderations(analysis)
        bestPractices      == checkBestPractices(analysis)
    IN  [overall_assessment    |-> generateOverallAssessment(analysis, codeQuality, securityAssessment),
         summary_score         |-> calculateSummaryScore(codeQuality, securityAssessment, bestPractices),
         code_quality          |-> codeQuality,
         security_assessment   |-> securityAssessment,
         suggestions           |-> generateSuggestions(analysis, areas),
         best_practices        |-> bestPractices,
         focus_area_analysis   |-> IF areas.present
                                   THEN generateFocusAreaAnalysis(analysis, areas.items)
                                   ELSE Absent,
         estimated_review_time |-> estimateReviewTime(analysis),
         complexity_analysis   |-> analyzeComplexity(analysis)]

(***************************************************************************)
(* Inputs of the engine run.                                               *)
(***************************************************************************)
RawFile(name, adds, dels) ==
    [filename |-> name, status |-> "modified", additions |-> adds, deletions |-> dels]

RawCommit(msg) == [message |-> msg]

repeat(n, x) == [i \in 1..n |-> x]

\* n filler characters
RECURSIVE xs(_)
xs(n) ==
    IF n <= 0 THEN ""
    ELSE IF n % 2 = 1 THEN "x" \o xs(n - 1)
    ELSE LET half == xs(n \div 2) IN half \o half

\* the text followed by filler characters up to the length
padTo(text, length) == text \o xs(length - Len(text))

HeadFileLists ==
    { <<>>,
      <<RawFile("src/auth.ts", 300, 250)>>,
      <<RawFile("src/app.ts", 30, 20)>>,
      <<RawFile("src/app.test.ts", 31, 20)>>,
      <<RawFile("README.md", 50, 0), RawFile("src/big.tsx", 150, 51)>>,
      <<RawFile("package.json", 1, 0), RawFile("config/app.yml", 1, 1),
        RawFile("src/token.ts", 60, 38)>> }

FillerFile == RawFile("lib/a.c", 2, 1)
FillerFileCounts == {0, 5, 15, MaxFiles}

FileLists == {head \o repeat(n, FillerFile) : head \in HeadFileLists, n \in FillerFileCounts}

HeadCommitLists ==
    { <<>>,
      <<RawCommit("feat: add login")>>,
      <<RawCommit("Merge pull request #5 from x/y")>>,
      <<RawCommit("fix(api)!: rotate api_key")>> }

FillerCommit == RawCommit("chore: tidy")
FillerCommitCounts == {0, 5, MaxCommits}

CommitLists ==
    {head \o repeat(n, FillerCommit) : head \in HeadCommitLists, n \in FillerCommitCounts}

Bodies ==
    { "",
      "short desc",
      padTo("Fixes #3 and #3 again, see #1 ", 49),
      padTo("closes #12 ", 50),
      padTo("no issue here ", MaxBody - 1),
      padTo("see #7 ", MaxBody) }

Titles == {"fix", "Add login flow", "   update      "}

\* the author of a pull request, null where the account is gone
Author == [isNull |-> FALSE, login |-> "octocat"]
NullUser == [isNull |-> TRUE, login |-> ""]

PullRequests ==
    {[title |-> t, body |-> b, draft |-> d, user |-> Author] :
        t \in Titles, b \in Bodies, d \in BOOLEAN}

FocusInputs ==
    { NoAreas,
      Areas(<<>>),
      Areas(<<"performance", "testing", "performance">>),
      Areas(<<"accessibility", "security", "documentation">>) }

\* The inputs a run starts from: every pull request with every file list and
\* every commit list, without focus areas; and, the focus areas meeting
\* nothing of a pull request but its file names and commit messages, every
\* focus-area input with every file list and every short commit list.
FocusPullRequest ==
    [title |-> "Add login flow", body |-> "short desc", draft |-> FALSE, user |-> Author]

EngineInputs ==
    {[pr |-> p, files |-> f, commits |-> c, areas |-> NoAreas] :
        p \in PullRequests, f \in FileLists, c \in CommitLists}
    \cup
    {[pr |-> FocusPullRequest, files |-> f, commits |-> c, areas |-> a] :
        f \in FileLists, c \in HeadCommitLists, a \in FocusInputs}

(***************************************************************************)
(* Application errors (AppError and its subclasses) and handleError.       *)
(* A thrown value is a record: class is "AppError" for the application's   *)
(* errors and "Error" for any other Error; statusCode is 0 where the       *)
(* object has no such property.                                            *)
(***************************************************************************)
NoError == [class |-> "none", name |-> "", message |-> "", statusCode |-> 0]

AppError(name, message, statusCode) ==
    [class |-> "AppError", name |-> name, message |-> message, statusCode |-> statusCode]

ValidationError(message) == AppError("ValidationError", message, 400)

GitHubAPIError(message, statusCode) == AppError("GitHubAPIError", message, statusCode)

RepositoryNotFoundError(repoUrl) ==
    AppError("RepositoryNotFoundError", "Repository not found: " \o repoUrl, 404)

PullRequestNotFoundError(repoUrl, prNumber) ==
    AppError("PullRequestNotFoundError",
             "Pull request #" \o ToString(prNumber) \o " not found in " \o repoUrl, 404)

AuthenticationError(message) == AppError("AuthenticationError", message, 401)

\* the runtime's error for reading a property of null
TypeError(message) ==
    [class |-> "Error", name |-> "TypeError", message |-> message, statusCode |-> 0]

isAppError(error) == error.class = "AppError"

handleErrorOpaque(error) ==
    IF isAppError(error)
    THEN [message |-> error.message, statusCode |-> error.statusCode]
    ELSE [message |-> "An unknown error occurred", statusCode |-> 500]

handleError(error) ==
    IF isAppError(error)
    THEN [message |-> error.message, statusCode |-> error.statusCode]
    ELSE IF error.class = "Error"
    THEN [message |-> error.message, statusCode |-> 500]
    ELSE [message |-> "An unknown error occurred", statusCode |-> 500]

(***************************************************************************)
(* Argument schemas (zod) and validateArgs.  A JSON number is kept in      *)
(* tenths, so that 1.5 is Number(15); a value of another type carries its  *)
(* type name.                                                              *)
(***************************************************************************)
Number(tenths) == [type |-> "number", tenths |-> tenths]
String7 == [type |-> "string", tenths |-> 0]
Undefined == [type |-> "undefined", tenths |-> 0]

\* z.string().url(): the text parses as a URL, here a scheme, "://" and a rest
isUrl(s) == \E i \in 2..(Len(s) - 3) : SubSeq(s, i, i + 2) = "://"

urlIssues(value) == when(~isUrl(value), "Invalid repository URL")

\* z.number().int().positive(msg): the type check stops the others
numberIssues(value) ==
    IF value.type = "undefined" THEN <<"Required">>
    ELSE IF value.type # "number" THEN <<"Expected number, received " \o value.type>>
    ELSE when(value.tenths % 10 # 0, "Expected integer, received float")
         \o when(value.tenths <= 0, "PR number must be a positive integer")

\* z.array(z.enum([...])).optional(): one issue for each item outside the enum
RECURSIVE enumIssues(_)
enumIssues(items) ==
    IF items = <<>> THEN <<>>
    ELSE when(Head(items) \notin FocusArea, "Invalid enum value: " \o Head(items))
         \o enumIssues(Tail(items))

focusAreasIssues(value) == IF value.present THEN enumIssues(value.items) ELSE <<>>

FetchPRDetailsSchema(args) == urlIssues(args.repo_url) \o numberIssues(args.pr_number)

GetPullRequestFilesSchema(args) == urlIssues(args.repo_url) \o numberIssues(args.pr_number)

GeneratePRFeedbackSchema(args) ==
    urlIssues(args.repo_url) \o numberIssues(args.pr_number)
    \o focusAreasIssues(args.focus_areas)

\* the issues schema.parse(args) of the tool's schema finds
schemaIssues(name, args) ==
    CASE name = "fetch_pr_details" -> FetchPRDetailsSchema(args)
      [] name = "generate_pr_feedback" -> GeneratePRFeedbackSchema(args)
      [] name = "get_pull_request_files" -> GetPullRequestFilesSchema(args)

\* the error validateArgs throws, NoError where the arguments parse; the
\* ZodError's message is the list of its issues
validateArgs(name, args) ==
    LET issues == schemaIssues(name, args)
    IN  IF issues = <<>> THEN NoError ELSE ValidationError(join(issues))

(***************************************************************************)
(* The gateway (GitHubRepository): how a fetch settles, given the outcome  *)
(* of its remote request after the retries.  A remote failure carries the  *)
(* status of the error and of its response, 0 where it has none.           *)
(***************************************************************************)
FetchNames == {"pr", "files", "commits"}

EmptyValue ==
    [pr      |-> [title |-> "", body |-> "", draft |-> FALSE, user |-> NullUser],
     files   |-> <<>>,
     commits |-> <<>>]

Unstarted(k) == [state |-> "unstarted", value |-> EmptyValue[k], error |-> NoError]
Pending(k) == [state |-> "pending", value |-> EmptyValue[k], error |-> NoError]
Fulfilled(value) == [state |-> "fulfilled", value |-> value, error |-> NoError]
Rejected(k, error) == [state |-> "rejected", value |-> EmptyValue[k], error |-> error]

RECURSIVE split(_, _)
split(s, separator) ==
    IF ~includes(s, separator) THEN <<s>>
    ELSE LET i == CHOOSE j \in 1..Len(s) :
                    /\ charAt(s, j) = separator
                    /\ \A h \in 1..(j - 1) : charAt(s, h) # separator
         IN  <<SubSeq(s, 1, i - 1)>> \o split(SubSeq(s, i + 1, Len(s)), separator)

\* owner and repository of https://<host>/<owner>/<repo>
parseRepositoryUrl(repoUrl) ==
    LET parts == split(SubSeq(repoUrl, Len("https://") + 1, Len(repoUrl)), "/")
    IN  [owner |-> parts[2], repo |-> parts[3]]

\* the error thrown if every status were reported as an upstream API error
handleApiErrorUntyped(error, context) ==
    LET status  == IF error.status # 0 THEN error.status
                   ELSE IF error.responseStatus # 0 THEN error.responseStatus
                   ELSE 500
        message == IF error.message # "" THEN error.message
                   ELSE "Unknown GitHub API error"
    IN  GitHubAPIError(message, status)

\* the error handleApiError throws
handleApiError(error, context) ==
    LET status  == IF error.status # 0 THEN error.status
                   ELSE IF error.responseStatus # 0 THEN error.responseStatus
                   ELSE 500
        message == IF error.message # "" THEN error.message
                   ELSE "Unknown GitHub API error"
    IN  CASE status = 401 -> AuthenticationError("GitHub token is invalid or expired")
          [] status = 403 ->
                GitHubAPIError("GitHub API rate limit exceeded or insufficient permissions",
                               status)
          [] status = 404 -> RepositoryNotFoundError(context)
          [] OTHER -> GitHubAPIError(message, status)

contextOf(label, repoUrl, prNumber) ==
    LET parsed == parseRepositoryUrl(repoUrl)
    IN  label \o " " \o parsed.owner \o "/" \o parsed.repo \o "#" \o ToString(prNumber)

getPullRequest(outcome, repoUrl, prNumber) ==
    IF outcome.ok THEN Fulfilled(outcome.data)
    ELSE IF outcome.error.status = 404
    THEN Rejected("pr", PullRequestNotFoundError(repoUrl, prNumber))
    ELSE Rejected("pr", handleApiError(outcome.error,
                                       contextOf("pull request", repoUrl, prNumber)))

getPullRequestFiles(outcome, repoUrl, prNumber) ==
    IF outcome.ok THEN Fulfilled(outcome.data)
    ELSE Rejected("files", handleApiError(outcome.error,
                                          contextOf("PR files", repoUrl, prNumber)))

getPullRequestCommits(outcome, repoUrl, prNumber) ==
    IF outcome.ok THEN Fulfilled(outcome.data)
    ELSE Rejected("commits", handleApiError(outcome.error,
                                            contextOf("PR commits", repoUrl, prNumber)))

settle(k, outcome, repoUrl, prNumber) ==
    CASE k = "pr" -> getPullRequest(outcome, repoUrl, prNumber)
      [] k = "files" -> getPullRequestFiles(outcome, repoUrl, prNumber)
      [] k = "commits" -> getPullRequestCommits(outcome, repoUrl, prNumber)

(***************************************************************************)
(* The gateway's calls outside the analysis: getFileContent and            *)
(* getPullRequestStatus.  What a gateway method ends with is a record      *)
(* [state, value, error]: a value returned or an error thrown.             *)
(***************************************************************************)
Returned(value) == [state |-> "fulfilled", value |-> value, error |-> NoError]
Thrown(error) == [state |-> "rejected", value |-> <<>>, error |-> error]

NoRemoteError == [status |-> 0, responseStatus |-> 0, message |-> ""]

\* what handleApiError reads of an application error caught by a method's own
\* catch block: AppError has statusCode, and neither status nor response
asCaught(error) == [status |-> 0, responseStatus |-> 0, message |-> error.message]

\* Buffer.from(content, 'base64').toString('utf8'), left uninterpreted
decoded(content) == [utf8OfBase64 |-> content]

getFileContent(outcome, repoUrl, filePath) ==
    LET parsed  == parseRepositoryUrl(repoUrl)
        context == "file content " \o parsed.owner \o "/" \o parsed.repo \o ":" \o filePath
    IN  IF ~outcome.ok THEN Thrown(handleApiError(outcome.error, context))
        ELSE IF outcome.data.hasContent /\ outcome.data.content # ""
        THEN Returned(decoded(outcome.data.content))
        ELSE Thrown(handleApiError(asCaught(GitHubAPIError("File content not available", 404)),
                                   context))

NoCheckRuns == [check_runs |-> <<>>]

\* the check-runs promise without the catch that absorbs its failure
uncaughtChecks(outcome) == outcome

\* retry(...).catch(() => ({ data: { check_runs: [] } }))
caughtChecks(outcome) ==
    IF outcome.ok THEN outcome
    ELSE [ok |-> TRUE, data |-> NoCheckRuns, error |-> NoRemoteError]

StatusPending == [state |-> "pending", error |-> NoRemoteError]

\* Promise.all of getPullRequestStatus after one more of the two remote calls
\* has settled; a remote call is [state, outcome]
statusAll(current, pulls, checks) ==
    LET caught == caughtChecks(checks.outcome)
    IN  IF current.state # "pending" THEN current
        ELSE IF pulls.state = "settled" /\ ~pulls.outcome.ok
        THEN [state |-> "rejected", error |-> pulls.outcome.error]
        ELSE IF checks.state = "settled" /\ ~caught.ok
        THEN [state |-> "rejected", error |-> caught.error]
        ELSE IF pulls.state = "settled" /\ checks.state = "settled"
        THEN [state |-> "fulfilled", error |-> NoRemoteError]
        ELSE current

\* the record getPullRequestStatus returns
statusRecord(pr, checks) ==
    [number     |-> pr.number,
     title      |-> pr.title,
     state      |-> pr.state,
     draft      |-> pr.draft,
     author     |-> [defined |-> ~pr.user.isNull, login |-> pr.user.login],
     checks     |-> [i \in 1..Len(checks) |->
                        [name       |-> checks[i].name,
                         status     |-> checks[i].status,
                         conclusion |-> checks[i].conclusion]],
     review_status |-> [approved_count          |-> 0,
                        changes_requested_count |-> 0,
                        comments_count          |-> pr.comments + pr.review_comments]]

\* getPullRequestStatus after the await
getPullRequestStatus(settled, pulls, checks, repoUrl, prNumber) ==
    IF settled.state = "rejected"
    THEN Thrown(handleApiError(settled.error, contextOf("PR status", repoUrl, prNumber)))
    ELSE Returned(statusRecord(pulls.outcome.data,
                               caughtChecks(checks.outcome).data.check_runs))

(***************************************************************************)
(* analyzePullRequest: Promise.all over the three fetches, then the        *)
(* analysis record.                                                        *)
(***************************************************************************)
PromisePending == [state |-> "pending", error |-> NoError]

\* Promise.all after one more of the promises has settled: it rejects with
\* the first rejection and fulfils once every promise is fulfilled
promiseAllSkippingCommits(current, promises) ==
    IF current.state # "pending" THEN current
    ELSE IF \E k \in {"pr", "files"} : promises[k].state = "rejected"
    THEN [state |-> "rejected",
          error |-> promises[CHOOSE k \in {"pr", "files"} :
                                promises[k].state = "rejected"].error]
    ELSE IF \A k \in {"pr", "files"} : promises[k].state = "fulfilled"
    THEN [state |-> "fulfilled", error |-> NoError]
    ELSE current

promiseAll(current, promises) ==
    IF current.state # "pending" THEN current
    ELSE IF \E k \in FetchNames : promises[k].state = "rejected"
    THEN [state |-> "rejected",
          error |-> promises[CHOOSE k \in FetchNames :
                                promises[k].state = "rejected"].error]
    ELSE IF \A k \in FetchNames : promises[k].state = "fulfilled"
    THEN [state |-> "fulfilled", error |-> NoError]
    ELSE current

NoResult == [status |-> "none", analysis |-> Absent, error |-> NoError]

\* analyzePullRequest after the await: the catch block logs and rethrows
analyzePullRequest(settled, promises) ==
    IF settled.state = "rejected"
    THEN [status |-> "thrown", analysis |-> Absent, error |-> settled.error]
    ELSE IF promises["pr"].value.user.isNull
    THEN [status |-> "thrown", analysis |-> Absent,
          error |-> TypeError("Cannot read properties of null (reading 'login')")]
    ELSE [status |-> "returned",
          analysis |-> buildAnalysis(promises["pr"].value, promises["files"].value,
                                     promises["commits"].value),
          error |-> NoError]

(***************************************************************************)
(* The tool router (ToolHandler).                                          *)
(***************************************************************************)
AnalysisTools == {"fetch_pr_details", "generate_pr_feedback"}
ToolNames == AnalysisTools \cup {"get_pull_request_files"}

\* handleToolCall up to its first await: the error thrown, or the fetches begun
handleToolCall(name, args) ==
    IF name \notin ToolNames
    THEN [error |-> ValidationError("Unknown tool: " \o name), started |-> {}]
    ELSE IF validateArgs(name, args) # NoError
    THEN [error |-> validateArgs(name, args), started |-> {}]
    ELSE [error |-> NoError,
          started |-> IF name \in AnalysisTools THEN FetchNames ELSE {"files"}]

\* JSON.stringify(result, null, 2): the text that denotes the result
stringify(result) == <<"JSON", result>>

successResponse(result) ==
    [content |-> <<[type |-> "text", text |-> stringify(result)]>>]

errorResponse(error) ==
    [content |-> <<[type |-> "text", text |-> "Error: " \o handleError(error).message]>>,
     isError |-> TRUE]

prNumberOf(args) == args.pr_number.tenths \div 10

(***************************************************************************)
(* Requests and remote outcomes of the router's run.                       *)
(***************************************************************************)
Args(repoUrl, prNumber, areas) ==
    [repo_url |-> repoUrl, pr_number |-> prNumber, focus_areas |-> areas]

NoCall == [name |-> "", args |-> Args("", Undefined, NoAreas)]

RepoUrl == "https://github.com/octo/demo"

SixAreas ==
    Areas(<<"performance", "security", "accessibility", "maintainability",
            "testing", "documentation">>)

Requests ==
    {[name |-> n, args |-> Args(u, p, NoAreas)] :
        n \in ToolNames \cup {"merge_pull_request"},
        u \in {RepoUrl, "octo/demo"},
        p \in {Number(70), Number(0), Number(-30), Number(15), String7, Undefined}}
    \cup
    {[name |-> "generate_pr_feedback", args |-> Args(RepoUrl, Number(70), a)] :
        a \in {Areas(<<>>), Areas(<<"security", "testing">>), Areas(<<"speed">>),
               Areas(<<"testing", "Security">>), SixAreas}}

RemoteError(status, responseStatus, message) ==
    [status |-> status, responseStatus |-> responseStatus, message |-> message]

RemoteErrors ==
    { RemoteError(401, 401, "Bad credentials"),
      RemoteError(403, 403, "API rate limit exceeded"),
      RemoteError(404, 404, "Not Found"),
      RemoteError(0, 404, "Not Found"),
      RemoteError(502, 502, "Bad Gateway"),
      RemoteError(0, 0, "") }

RouterData ==
    [pr      |-> { FocusPullRequest,
                   [title |-> "fix", body |-> "closes #12", draft |-> TRUE, user |-> Author],
                   [title |-> "Add login flow", body |-> "", draft |-> FALSE,
                    user |-> NullUser] },
     files   |-> { <<>>, <<RawFile("src/auth.ts", 300, 250)>> },
     commits |-> { <<>>, <<RawCommit("feat: add login")>> }]

RemoteOutcomes(k) ==
    {[ok |-> TRUE, data |-> d, error |-> RemoteError(0, 0, "")] : d \in RouterData[k]}
    \cup
    {[ok |-> FALSE, data |-> EmptyValue[k], error |-> e] : e \in RemoteErrors}

RouterRest ==
    /\ call = NoCall
    /\ fetch = [k \in FetchNames |-> Unstarted(k)]
    /\ all = PromisePending
    /\ analysisResult = NoResult
    /\ raised = NoError
    /\ gatewayCalls = 0
    /\ feedbackCalls = 0
    /\ responses = <<>>

RouterIdle == pc = "off" /\ RouterRest

(***************************************************************************)
(* The engine run: normalize the raw data, then score the analysis.        *)
(***************************************************************************)
EngineIdle ==
    /\ epc = "off" /\ rawPR = Absent /\ rawFiles = <<>> /\ rawCommits = <<>>
    /\ focusAreas = NoAreas /\ prAnalysis = Absent /\ feedback = Absent

ComplexityIdle == ccTotal = 0 /\ ccFiles = 0 /\ ccResult = Absent

TextRest ==
    /\ applied = {}
    /\ linkedIssues = <<>>
    /\ linkedAgain = <<>>
    /\ testFile = FALSE
    /\ mergeCommit = FALSE

TextIdle == txt = "" /\ TextRest

TimeIdle == rtpc = "off" /\ rtFiles = 0 /\ rtTotal = 0 /\ reviewTime = 0

CallsIdle == analyses = <<>> /\ invocations = <<>>

RemoteCallNames ==
    {"pullsGet", "pullsListFiles", "pullsListCommits", "reposGetContent",
     "checksListForRef"}

NoOutcome == [ok |-> FALSE, data |-> <<>>, error |-> NoRemoteError]
NoGatewayCall == [method |-> "", repo_url |-> "", number |-> 0, path |-> ""]
NoGatewayResult == [state |-> "none", value |-> <<>>, error |-> NoError]

GatewayRest ==
    /\ gcall = NoGatewayCall
    /\ gremote = [c \in RemoteCallNames |-> [state |-> "unstarted", outcome |-> NoOutcome]]
    /\ gall = StatusPending
    /\ gresult = NoGatewayResult

GatewayIdle == gpc = "off" /\ GatewayRest

MaxRequests == 3        \* most requests the client sends in a run
MaxLines == 4           \* most lines the client receives from the server in a run

\* the client after its constructor
ClientRest ==
    /\ messageId = 0
    /\ issued = <<>>
    /\ pendingRequests = {}
    /\ timers = {}
    /\ settlements = [id \in 1..MaxRequests |-> <<>>]
    /\ delivered = 0

ClientIdle == cpc = "off" /\ ClientRest

NoHealth == [status |-> "none", github_api |-> "", error |-> ""]
Running == [exited |-> FALSE, code |-> 0]
Exited(code) == [exited |-> TRUE, code |-> code]

\* the server after its constructor
ServerRest ==
    /\ isConnected = FALSE
    /\ transport = "unconnected"
    /\ healthStatus = NoHealth
    /\ startupError = NoError
    /\ processEvent = ""
    /\ exit = Running
    /\ served = 0

ServerIdle == spc = "off" /\ ServerRest

FirstIdle == EngineIdle /\ ComplexityIdle /\ RouterIdle /\ TextIdle
OthersIdle == TimeIdle /\ CallsIdle /\ GatewayIdle /\ ClientIdle /\ ServerIdle
ExceptTimeIdle == FirstIdle /\ CallsIdle /\ GatewayIdle /\ ClientIdle /\ ServerIdle
ExceptCallsIdle == FirstIdle /\ TimeIdle /\ GatewayIdle /\ ClientIdle /\ ServerIdle
ExceptGatewayIdle == FirstIdle /\ TimeIdle /\ CallsIdle /\ ClientIdle /\ ServerIdle
ExceptClientIdle == FirstIdle /\ TimeIdle /\ CallsIdle /\ GatewayIdle /\ ServerIdle
ExceptServerIdle == FirstIdle /\ TimeIdle /\ CallsIdle /\ GatewayIdle /\ ClientIdle

EngineInit ==
    /\ epc = "raw"
    /\ \E input \in EngineInputs :
        /\ rawPR = input.pr
        /\ rawFiles = input.files
        /\ rawCommits = input.commits
        /\ focusAreas = input.areas
    /\ prAnalysis = Absent
    /\ feedback = Absent
    /\ ComplexityIdle
    /\ RouterIdle
    /\ TextIdle
    /\ OthersIdle

Normalize ==
    /\ epc = "raw"
    /\ prAnalysis' = buildAnalysis(rawPR, rawFiles, rawCommits)
    /\ epc' = "normalized"
    /\ UNCHANGED <<rawPR, rawFiles, rawCommits, focusAreas, feedback, ccVars, routerVars, textVars, otherVars>>

GenerateFeedback ==
    /\ epc = "normalized"
    /\ feedback' = generatePRFeedback(prAnalysis, focusAreas)
    /\ epc' = "scored"
    /\ UNCHANGED <<rawPR, rawFiles, rawCommits, focusAreas, prAnalysis, ccVars, routerVars, textVars, otherVars>>

EngineNext == Normalize \/ GenerateFeedback

SpecEngine == EngineInit /\ [][EngineNext]_vars

(***************************************************************************)
(* assessChangeComplexity applied to every pair of non-negative arguments. *)
(***************************************************************************)
ComplexityInit ==
    /\ ccTotal \in 0..MaxTotal
    /\ ccFiles \in 0..MaxCount
    /\ ccResult = Absent
    /\ EngineIdle
    /\ RouterIdle
    /\ TextIdle
    /\ OthersIdle

AssessComplexity ==
    /\ ccResult = Absent
    /\ ccResult' = assessChangeComplexity(ccTotal, ccFiles)
    /\ UNCHANGED <<ccTotal, ccFiles, engineVars, routerVars, textVars, otherVars>>

ComplexityNext == AssessComplexity

SpecComplexity == ComplexityInit /\ [][ComplexityNext]_vars

(***************************************************************************)
(* The text functions applied to descriptions, file names and commit       *)
(* messages: extractLinkedIssues twice, isTestFile and isMergeCommit once. *)
(***************************************************************************)
Descriptions ==
    {first \o second \o third :
        first  \in {"", "fixes #3", "Closes  #12", "see #1", "fix#4", "resolved #007"},
        second \in {"", " and #3 again", " #10", " closes #", " FIXED #2"},
        third  \in {"", ", see #1", " #3", " #"}}

Filenames ==
    { "tests/foo.py", "src/tests/foo.py", "test/foo.py", "lib/test/a.c",
      "__tests__/x.js", "a/__tests__/b.js", "src/app.test.ts", "src/app.spec.js",
      "x.spec.rs", "app.test.txt", "app.test.ts.bak", "src/app.tests.ts",
      "src/contest/a.c", "src/latest.ts", "attest.ts", "spec.ts", "src/tests",
      "tests", "src/app.ts", "README.md" }

Messages ==
    { "Merge pull request #5 from x/y", "feat: add login", "merge branch main",
      "MERGE  x into y", "Merged stuff", "Merge", "merge ", "emerge now",
      "Revert \"Merge branch 'dev'\"", "Revert \"Merge pull request #3\"",
      "revert: merge pull request #3", "chore: merge branch cleanup",
      "fix: Merge branches", "Merge-branch" }

Texts == Descriptions \cup Filenames \cup Messages

TextInit ==
    /\ txt \in Texts
    /\ TextRest
    /\ EngineIdle
    /\ ComplexityIdle
    /\ RouterIdle
    /\ OthersIdle

ExtractLinkedIssues ==
    /\ "extractLinkedIssues" \notin applied
    /\ linkedIssues' = extractLinkedIssues(txt)
    /\ applied' = applied \cup {"extractLinkedIssues"}
    /\ UNCHANGED <<txt, linkedAgain, testFile, mergeCommit, engineVars, ccVars, routerVars, otherVars>>

ExtractLinkedIssuesAgain ==
    /\ "extractLinkedIssues" \in applied
    /\ "again" \notin applied
    /\ linkedAgain' = extractLinkedIssues(txt)
    /\ applied' = applied \cup {"again"}
    /\ UNCHANGED <<txt, linkedIssues, testFile, mergeCommit, engineVars, ccVars, routerVars, otherVars>>

ClassifyTestFile ==
    /\ "isTestFile" \notin applied
    /\ testFile' = isTestFile(txt)
    /\ applied' = applied \cup {"isTestFile"}
    /\ UNCHANGED <<txt, linkedIssues, linkedAgain, mergeCommit, engineVars, ccVars,
                   routerVars, otherVars>>

ClassifyMergeCommit ==
    /\ "isMergeCommit" \notin applied
    /\ mergeCommit' = isMergeCommit(txt)
    /\ applied' = applied \cup {"isMergeCommit"}
    /\ UNCHANGED <<txt, linkedIssues, linkedAgain, testFile, engineVars, ccVars,
                   routerVars, otherVars>>

TextNext ==
    ExtractLinkedIssues \/ ExtractLinkedIssuesAgain \/ ClassifyTestFile
    \/ ClassifyMergeCommit

SpecText == TextInit /\ [][TextNext]_vars

(***************************************************************************)
(* estimateReviewTime applied to a pull request of any size, and again     *)
(* after files or changed lines are added to it.                           *)
(***************************************************************************)
MaxAddedFiles == 2      \* most files added to the pull request in one step
MaxAddedChanges == 3    \* most changed lines added to the pull request in one step

\* the two fields of a PRAnalysis that estimateReviewTime reads
sizedAnalysis(files, total) ==
    [files_changed |-> repeat(files, FillerFile),
     diff_summary  |-> [total_changes |-> total]]

ReviewTimeInit ==
    /\ rtpc = "input"
    /\ rtFiles \in 0..MaxCount
    /\ rtTotal \in 0..MaxTotal
    /\ reviewTime = 0
    /\ ExceptTimeIdle

EstimateReviewTime ==
    /\ rtpc = "input"
    /\ reviewTime' = estimateReviewTime(sizedAnalysis(rtFiles, rtTotal))
    /\ rtpc' = "estimated"
    /\ UNCHANGED <<rtFiles, rtTotal, exceptTimeVars>>

\* the same pull request with more files or more changed lines, estimated again
EstimateGrown ==
    /\ rtpc = "estimated"
    /\ \E files \in 0..MaxAddedFiles, changes \in 0..MaxAddedChanges :
        /\ files + changes > 0
        /\ rtFiles + files <= MaxCount
        /\ rtTotal + changes <= MaxTotal
        /\ rtFiles' = rtFiles + files
        /\ rtTotal' = rtTotal + changes
        /\ reviewTime' = estimateReviewTime(sizedAnalysis(rtFiles', rtTotal'))
    /\ UNCHANGED <<rtpc, exceptTimeVars>>

ReviewTimeNext == EstimateReviewTime \/ EstimateGrown

SpecReviewTime == ReviewTimeInit /\ [][ReviewTimeNext]_vars

(***************************************************************************)
(* The one FeedbackService of a tool handler, invoked again and again on   *)
(* PRAnalysis objects its callers keep.  generatePRFeedback is synchronous, *)
(* so an invocation is one step; the service has no fields, and the arrays  *)
(* it writes are the ones it creates.                                      *)
(***************************************************************************)
MaxInvocations == 3     \* most invocations in a run
Holders == {"first", "second"}     \* the PRAnalysis objects held

SharedAnalyses ==
    {buildAnalysis(FocusPullRequest, input.files, input.commits) :
        input \in { [files |-> <<>>, commits |-> <<>>],
                    [files |-> <<RawFile("src/auth.ts", 300, 250)>>,
                     commits |-> <<RawCommit("fix(api)!: rotate api_key")>>],
                    [files |-> <<RawFile("package.json", 1, 0), RawFile("config/app.yml", 1, 1),
                                 RawFile("src/token.ts", 60, 38)>>,
                     commits |-> <<RawCommit("feat: add login")>>] }}

CallsInit ==
    /\ analyses \in [Holders -> SharedAnalyses]
    /\ invocations = <<>>
    /\ ExceptCallsIdle

\* feedbackService.generatePRFeedback(analysis, areas) on one of the objects
InvokeGeneratePRFeedback ==
    /\ Len(invocations) < MaxInvocations
    /\ \E holder \in Holders, areas \in FocusInputs :
        invocations' = Append(invocations,
            [holder   |-> holder,
             areas    |-> areas,
             feedback |-> generatePRFeedback(analyses[holder], areas)])
    /\ UNCHANGED <<analyses, exceptCallVars>>

CallsNext == InvokeGeneratePRFeedback

SpecCalls == CallsInit /\ [][CallsNext]_vars

(***************************************************************************)
(* One call of a gateway method: the method starts its remote calls, they  *)
(* settle one at a time in any order, and the method resumes once what it  *)
(* awaits has settled.                                                     *)
(***************************************************************************)
GatewayMethods ==
    {"getPullRequest", "getPullRequestFiles", "getPullRequestCommits", "getFileContent",
     "getPullRequestStatus"}

remoteCallsOf(method) ==
    CASE method = "getPullRequest" -> {"pullsGet"}
      [] method = "getPullRequestFiles" -> {"pullsListFiles"}
      [] method = "getPullRequestCommits" -> {"pullsListCommits"}
      [] method = "getFileContent" -> {"reposGetContent"}
      [] method = "getPullRequestStatus" -> {"pullsGet", "checksListForRef"}

GatewayData ==
    [pullsGet |->
        { [number |-> 5, title |-> "Add login flow", body |-> "short desc", state |-> "open",
           draft |-> FALSE, user |-> Author, comments |-> 1, review_comments |-> 2],
          [number |-> 5, title |-> "fix", body |-> "", state |-> "closed",
           draft |-> TRUE, user |-> NullUser, comments |-> 0, review_comments |-> 0] },
     pullsListFiles |-> RouterData.files,
     pullsListCommits |-> RouterData.commits,
     reposGetContent |->
        { [hasContent |-> TRUE, content |-> "aGk="],
          [hasContent |-> TRUE, content |-> ""],
          [hasContent |-> FALSE, content |-> ""] },
     checksListForRef |->
        { NoCheckRuns,
          [check_runs |-> <<[id |-> 11, name |-> "build", status |-> "completed",
                             conclusion |-> "success"]>>] }]

GatewayOutcomes(c) ==
    {[ok |-> TRUE, data |-> d, error |-> NoRemoteError] : d \in GatewayData[c]}
    \cup
    {[ok |-> FALSE, data |-> <<>>, error |-> e] : e \in RemoteErrors}

GatewayInit == gpc = "idle" /\ GatewayRest /\ ExceptGatewayIdle

\* a method is called: it parses the repository URL and starts its remote calls
CallGateway ==
    /\ gpc = "idle"
    /\ \E method \in GatewayMethods :
        /\ gcall' = [method |-> method, repo_url |-> RepoUrl, number |-> 5,
                     path |-> "src/app.ts"]
        /\ gremote' = [c \in RemoteCallNames |->
                         [state   |-> IF c \in remoteCallsOf(method) THEN "pending"
                                      ELSE "unstarted",
                          outcome |-> NoOutcome]]
    /\ gpc' = "awaiting"
    /\ UNCHANGED <<gall, gresult, exceptGatewayVars>>

\* a remote call, retries included, ends with a response or with an error
RemoteSettles ==
    /\ gpc \in {"awaiting", "returned"}
    /\ \E c \in RemoteCallNames :
        /\ gremote[c].state = "pending"
        /\ \E outcome \in GatewayOutcomes(c) :
            gremote' = [gremote EXCEPT ![c] = [state |-> "settled", outcome |-> outcome]]
    /\ gall' = IF gcall.method = "getPullRequestStatus"
               THEN statusAll(gall, gremote'["pullsGet"], gremote'["checksListForRef"])
               ELSE gall
    /\ UNCHANGED <<gpc, gcall, gresult, exceptGatewayVars>>

\* what the method awaits has settled
awaitedSettled ==
    IF gcall.method = "getPullRequestStatus" THEN gall.state # "pending"
    ELSE \A c \in remoteCallsOf(gcall.method) : gremote[c].state = "settled"

\* the method resumes after its await and returns or throws
GatewayReturns ==
    /\ gpc = "awaiting"
    /\ awaitedSettled
    /\ gresult' =
        CASE gcall.method = "getPullRequest" ->
                getPullRequest(gremote["pullsGet"].outcome, gcall.repo_url, gcall.number)
          [] gcall.method = "getPullRequestFiles" ->
                getPullRequestFiles(gremote["pullsListFiles"].outcome, gcall.repo_url,
                                    gcall.number)
          [] gcall.method = "getPullRequestCommits" ->
                getPullRequestCommits(gremote["pullsListCommits"].outcome, gcall.repo_url,
                                      gcall.number)
          [] gcall.method = "getFileContent" ->
                getFileContent(gremote["reposGetContent"].outcome, gcall.repo_url,
                               gcall.path)
          [] gcall.method = "getPullRequestStatus" ->
                getPullRequestStatus(gall, gremote["pullsGet"], gremote["checksListForRef"],
                                     gcall.repo_url, gcall.number)
    /\ gpc' = "returned"
    /\ UNCHANGED <<gcall, gremote, gall, exceptGatewayVars>>

GatewayNext == CallGateway \/ RemoteSettles \/ GatewayReturns

SpecGateway == GatewayInit /\ [][GatewayNext]_vars

(***************************************************************************)
(* The test client.  A line from the server is any text: it may not parse  *)
(* as JSON, it may lack an id, and its id may be a number or a string and   *)
(* name a pending request, a settled one or none.                          *)
(***************************************************************************)
\* this.pendingRequests.has(id): the keys are numbers
has(pending, id) == id.type = "number" /\ id.n \in pending

\* handleServerMessage that settles the promise and keeps its entry
handleServerMessageKeepingEntry(pending, settled, line) ==
    IF line.parses /\ line.hasId /\ has(pending, line.id)
    THEN [pendingRequests |-> pending,
          settlements |-> [settled EXCEPT ![line.id.n] =
                              Append(@, IF line.hasError THEN "reject(error)" ELSE "resolve(result)")]]
    ELSE [pendingRequests |-> pending, settlements |-> settled]

handleServerMessage(pending, settled, line) ==
    IF line.parses /\ line.hasId /\ has(pending, line.id)
    THEN [pendingRequests |-> pending \ {line.id.n},
          settlements |-> [settled EXCEPT ![line.id.n] =
                              Append(@, IF line.hasError THEN "reject(error)" ELSE "resolve(result)")]]
    ELSE [pendingRequests |-> pending, settlements |-> settled]

\* the callback of the timer set by sendRequest
onTimeout(pending, settled, id) ==
    IF id \in pending
    THEN [pendingRequests |-> pending \ {id},
          settlements |-> [settled EXCEPT ![id] = Append(@, "reject(timeout)")]]
    ELSE [pendingRequests |-> pending, settlements |-> settled]

ServerLines ==
    {[parses |-> FALSE, hasId |-> FALSE, id |-> [type |-> "number", n |-> 0],
      hasError |-> FALSE]}
    \cup
    {[parses |-> TRUE, hasId |-> FALSE, id |-> [type |-> "number", n |-> 0],
      hasError |-> e] : e \in BOOLEAN}
    \cup
    {[parses |-> TRUE, hasId |-> TRUE, id |-> [type |-> t, n |-> n], hasError |-> e] :
        t \in {"number", "string"}, n \in 0..(MaxRequests + 1), e \in BOOLEAN}

ClientInit == cpc = "connected" /\ ClientRest /\ ExceptClientIdle

\* sendRequest: a new id, a pending entry, the request written, a timer set
SendRequest ==
    /\ cpc = "connected"
    /\ messageId < MaxRequests
    /\ messageId' = messageId + 1
    /\ issued' = Append(issued, messageId')
    /\ pendingRequests' = pendingRequests \cup {messageId'}
    /\ timers' = timers \cup {messageId'}
    /\ UNCHANGED <<cpc, settlements, delivered, exceptClientVars>>

\* a line arrives on the server's stdout
HandleServerMessage ==
    /\ cpc = "connected"
    /\ delivered < MaxLines
    /\ \E line \in ServerLines :
        LET after == handleServerMessage(pendingRequests, settlements, line)
        IN  /\ pendingRequests' = after.pendingRequests
            /\ settlements' = after.settlements
    /\ delivered' = delivered + 1
    /\ UNCHANGED <<cpc, messageId, issued, timers, exceptClientVars>>

\* the timer of a request fires, 15 seconds after the request was sent
Timeout ==
    /\ cpc = "connected"
    /\ \E id \in timers :
        LET after == onTimeout(pendingRequests, settlements, id)
        IN  /\ pendingRequests' = after.pendingRequests
            /\ settlements' = after.settlements
            /\ timers' = timers \ {id}
    /\ UNCHANGED <<cpc, messageId, issued, delivered, exceptClientVars>>

ClientNext == SendRequest \/ HandleServerMessage \/ Timeout

SpecClient == ClientInit /\ [][ClientNext]_vars

(***************************************************************************)
(* The server process: main() constructs the server and awaits run(); the  *)
(* signal handlers installed by the constructor may run between any two    *)
(* awaits.  What follows an await up to the next one is one step.          *)
(***************************************************************************)
MaxServed == 20         \* most requests handled over the transport in a run

\* getRepository on the repository the health check reads
getRepository(outcome, repoUrl) ==
    LET parsed == parseRepositoryUrl(repoUrl)
    IN  IF outcome.ok THEN Returned(outcome.data)
        ELSE Thrown(handleApiError(outcome.error,
                                   "repository " \o parsed.owner \o "/" \o parsed.repo))

healthCheck(outcome) ==
    LET fetched == getRepository(outcome, "https://github.com/octocat/Hello-World")
    IN  IF fetched.state = "fulfilled"
        THEN [status |-> "healthy", github_api |-> "connected", error |-> ""]
        ELSE [status |-> "unhealthy", github_api |-> "disconnected",
              error |-> fetched.error.message]

\* run() that goes on to connect whatever the health check returned
runAfterHealthCheckUngated(health) == NoError

\* run() after the health check: the error it throws, or NoError to go on
runAfterHealthCheck(health) ==
    IF health.status # "healthy"
    THEN AuthenticationError("GitHub API health check failed")
    ELSE NoError

RepositoryOutcomes ==
    {[ok |-> TRUE, data |-> [full_name |-> "octocat/Hello-World"], error |-> NoRemoteError]}
    \cup
    {[ok |-> FALSE, data |-> <<>>, error |-> e] : e \in RemoteErrors}

ConnectErrors ==
    {[class |-> "Error", name |-> "Error", message |-> m, statusCode |-> 0] :
        m \in {"Already connected to a transport", "stdin closed"}}

ServerInit == spc = "constructed" /\ ServerRest /\ ExceptServerIdle

\* main() calls run(), which starts the health check and awaits it
StartRun ==
    /\ spc = "constructed"
    /\ spc' = "checking"
    /\ UNCHANGED <<isConnected, transport, healthStatus, startupError, processEvent, exit, served,
                   exceptServerVars>>

\* the health check returns: run() throws, main() catches and exits with 1,
\* or run() starts connecting the transport and awaits it
HealthCheckReturns ==
    /\ spc = "checking"
    /\ \E outcome \in RepositoryOutcomes :
        /\ healthStatus' = healthCheck(outcome)
        /\ startupError' = runAfterHealthCheck(healthStatus')
    /\ IF startupError' # NoError
       THEN spc' = "exited" /\ exit' = Exited(1) /\ transport' = transport
       ELSE spc' = "connecting" /\ exit' = exit /\ transport' = "connecting"
    /\ UNCHANGED <<isConnected, processEvent, served, exceptServerVars>>

\* server.connect(transport) ends: isConnected is set and run() waits forever,
\* or the error goes through run() to main(), which exits with 1
ConnectReturns ==
    /\ spc = "connecting"
    /\ \/ /\ transport' = "connected"
          /\ isConnected' = TRUE
          /\ spc' = "running"
          /\ UNCHANGED <<startupError, exit>>
       \/ /\ \E error \in ConnectErrors : startupError' = error
          /\ transport' = "failed"
          /\ spc' = "exited"
          /\ exit' = Exited(1)
          /\ UNCHANGED isConnected
    /\ UNCHANGED <<healthStatus, processEvent, served, exceptServerVars>>

\* a request arrives over the connected transport and is handled
ServeRequest ==
    /\ spc \in {"connecting", "running"}
    /\ transport = "connected"
    /\ served < MaxServed
    /\ served' = served + 1
    /\ UNCHANGED <<spc, isConnected, transport, healthStatus, startupError, processEvent, exit,
                   exceptServerVars>>

\* handleShutdown on SIGINT or SIGTERM
ReceiveSignal ==
    /\ spc \in {"constructed", "checking", "connecting", "running"}
    /\ \E name \in {"SIGINT", "SIGTERM"} : processEvent' = name
    /\ isConnected' = FALSE
    /\ exit' = Exited(0)
    /\ spc' = "exited"
    /\ UNCHANGED <<transport, healthStatus, startupError, served, exceptServerVars>>

\* the handlers of uncaughtException and unhandledRejection
FailUncaught ==
    /\ spc \in {"constructed", "checking", "connecting", "running"}
    /\ \E name \in {"uncaughtException", "unhandledRejection"} : processEvent' = name
    /\ exit' = Exited(1)
    /\ spc' = "exited"
    /\ UNCHANGED <<isConnected, transport, healthStatus, startupError, served,
                   exceptServerVars>>

ServerNext ==
    \/ StartRun
    \/ HealthCheckReturns
    \/ ConnectReturns
    \/ ServeRequest
    \/ ReceiveSignal
    \/ FailUncaught

SpecServer == ServerInit /\ [][ServerNext]_vars

(***************************************************************************)
(* The router's run: one tools/call request, from its arrival to its       *)
(* response.  Every action is a stretch of the handler between two awaits. *)
(***************************************************************************)
Init ==
    pc = "idle" /\ RouterRest /\ EngineIdle /\ ComplexityIdle /\ TextIdle /\ OthersIdle

\* the request arrives: dispatch on the tool name, validate the arguments and
\* begin the fetches; a throw is caught and answered at once
CallTool ==
    /\ pc = "idle"
    /\ \E request \in Requests :
        LET begun == handleToolCall(request.name, request.args)
        IN  /\ call' = request
            /\ raised' = begun.error
            /\ fetch' = [k \in FetchNames |->
                            IF k \in begun.started THEN Pending(k) ELSE Unstarted(k)]
            /\ gatewayCalls' = Cardinality(begun.started)
            /\ IF begun.error # NoError
               THEN /\ responses' = <<errorResponse(begun.error)>>
                    /\ pc' = "done"
               ELSE /\ responses' = responses
                    /\ pc' = "awaiting"
    /\ UNCHANGED <<all, analysisResult, feedbackCalls, engineVars, ccVars, textVars, otherVars>>

\* the remote request of one fetch ends, in any order with the others and
\* also after the response has been returned
fetchInFlight == \E k \in FetchNames : fetch[k].state = "pending"

FetchSettle ==
    /\ fetchInFlight
    /\ \E k \in FetchNames :
        /\ fetch[k].state = "pending"
        /\ \E outcome \in RemoteOutcomes(k) :
            /\ fetch' = [fetch EXCEPT
                            ![k] = settle(k, outcome, call.args.repo_url,
                                          prNumberOf(call.args))]
            /\ all' = IF call.name \in AnalysisTools THEN promiseAll(all, fetch')
                      ELSE all
    /\ UNCHANGED <<pc, call, analysisResult, raised, gatewayCalls, feedbackCalls,
                   responses, engineVars, ccVars, textVars, otherVars>>

\* analyzePullRequest resumes once Promise.all has settled
analysisSettled ==
    pc = "awaiting" /\ call.name \in AnalysisTools /\ all.state # "pending"

AnalyzeSettles ==
    /\ analysisSettled
    /\ analysisResult' = analyzePullRequest(all, fetch)
    /\ pc' = "analyzed"
    /\ UNCHANGED <<call, fetch, all, raised, gatewayCalls, feedbackCalls, responses,
                   engineVars, ccVars, textVars, otherVars>>

\* handleFetchPRDetails or handleGeneratePRFeedback resumes with the analysis,
\* or the error thrown by analyzePullRequest reaches the handler's catch
ReturnAnalysis ==
    /\ pc = "analyzed"
    /\ IF analysisResult.status = "thrown"
       THEN /\ raised' = analysisResult.error
            /\ responses' = <<errorResponse(analysisResult.error)>>
            /\ feedbackCalls' = feedbackCalls
       ELSE IF call.name = "generate_pr_feedback"
       THEN /\ raised' = raised
            /\ responses' =
                 <<successResponse(
                     [pr_analysis |-> analysisResult.analysis,
                      feedback    |-> generatePRFeedback(analysisResult.analysis,
                                                         call.args.focus_areas)])>>
            /\ feedbackCalls' = feedbackCalls + 1
       ELSE /\ raised' = raised
            /\ responses' = <<successResponse(analysisResult.analysis)>>
            /\ feedbackCalls' = feedbackCalls
    /\ pc' = "done"
    /\ UNCHANGED <<call, fetch, all, analysisResult, gatewayCalls, engineVars, ccVars, textVars, otherVars>>

\* handleGetPullRequestFiles resumes with the files, or the gateway's error
\* reaches the handler's catch
filesSettled ==
    /\ pc = "awaiting"
    /\ call.name = "get_pull_request_files"
    /\ fetch["files"].state \in {"fulfilled", "rejected"}

ReturnFiles ==
    /\ filesSettled
    /\ IF fetch["files"].state = "rejected"
       THEN /\ raised' = fetch["files"].error
            /\ responses' = <<errorResponse(fetch["files"].error)>>
       ELSE /\ raised' = raised
            /\ responses' =
                 <<successResponse([repo_url  |-> call.args.repo_url,
                                    pr_number |-> prNumberOf(call.args),
                                    files     |-> fetch["files"].value])>>
    /\ pc' = "done"
    /\ UNCHANGED <<call, fetch, all, analysisResult, gatewayCalls, feedbackCalls,
                   engineVars, ccVars, textVars, otherVars>>

Next == CallTool \/ FetchSettle \/ AnalyzeSettles \/ ReturnAnalysis \/ ReturnFiles

Spec == Init /\ [][Next]_vars

(***************************************************************************)
(* Properties of the engine run and of the complexity bands.               *)
(***************************************************************************)
ind(b) == IF b THEN 1 ELSE 0

\* C1: for every analysis and focus-area input, generatePRFeedback returns
\* code_quality.score within [0,10] and summary_score within [0,10]
\* (summary_score counted in tenths: within 0..100).
ScoresWithinBounds ==
    epc = "scored" =>
        /\ feedback.code_quality.score \in 0..10
        /\ feedback.summary_score \in 0..100

\* C1 witness: the lowest quality score with a high security risk and no
\* practice followed, where the summary score is held at 0 by the clamp.
ScoresClampedAtZero ==
    /\ epc = "scored"
    /\ feedback.code_quality.score = 1
    /\ feedback.security_assessment.risk_level = "high"
    /\ feedback.best_practices.followed = <<>>
    /\ feedback.summary_score = 0

\* C2: the code-quality score is clamp(10 - deductions, 0, 10), each
\* deduction applied exactly when its own trigger holds, and each strength
\* and concern text is emitted exactly when its trigger in the rule table holds.
CodeQualityFollowsRuleTable ==
    epc = "scored" =>
        LET q        == feedback.code_quality
            total    == prAnalysis.diff_summary.total_changes
            files    == prAnalysis.diff_summary.files_count
            tests    == hasTestFiles(prAnalysis.files_changed)
            docs     == hasDocumentationFiles(prAnalysis.files_changed)
            descLen  == Len(prAnalysis.description)
            nCommits == Len(prAnalysis.commits)
            xlFiles  == {i \in 1..Len(prAnalysis.files_changed) :
                            prAnalysis.files_changed[i].size_category = "xl"}
            expected == 10 - 2 * ind(total > 500) - ind(files > 20)
                           - 2 * ind(~tests /\ total > 50) - ind(~docs /\ total > 100)
                           - ind(descLen < 50) - ind(nCommits > 20) - ind(xlFiles # {})
            concern(text)  == seqContains(q.concerns, text)
            strength(text) == seqContains(q.strengths, text)
        IN  /\ q.score = Max(0, Min(10, expected))
            /\ concern("Large PR with many changes - consider breaking into smaller PRs")
                   <=> total > 500
            /\ strength("Focused PR with manageable scope") <=> total < 50
            /\ concern("Many files changed - ensure changes are related and cohesive")
                   <=> files > 20
            /\ strength("Limited number of files changed, easier to review") <=> files <= 5
            /\ concern("No test files detected - consider adding tests for new functionality")
                   <=> (~tests /\ total > 50)
            /\ strength("Includes test files") <=> tests
            /\ concern("Consider updating documentation for significant changes")
                   <=> (~docs /\ total > 100)
            /\ strength("Includes documentation updates") <=> docs
            /\ concern("PR description is brief - consider adding more context")
                   <=> descLen < 50
            /\ strength("Comprehensive PR description provided") <=> descLen > 200
            /\ concern("Many commits - consider squashing related commits") <=> nCommits > 20
            /\ strength("Reasonable number of commits") <=> nCommits <= 5
            /\ (\E k \in 1..Len(q.concerns) :
                    endsWith(q.concerns[k], " files with extensive changes - review carefully"))
                   <=> xlFiles # {}
            /\ Len(q.concerns) + Len(q.strengths)
                   = ind(total > 500) + ind(total < 50) + ind(files > 20) + ind(files <= 5)
                     + ind(~tests /\ total > 50) + ind(tests) + ind(~docs /\ total > 100)
                     + ind(docs) + ind(descLen < 50) + ind(descLen > 200)
                     + ind(nCommits > 20) + ind(nCommits <= 5) + ind(xlFiles # {})

\* C2 witness: a run where the no-tests deduction applies while the large-diff
\* and no-documentation deductions do not.
NoTestsDeductionAlone ==
    /\ epc = "scored"
    /\ prAnalysis.diff_summary.total_changes \in 51..100
    /\ ~hasTestFiles(prAnalysis.files_changed)
    /\ Len(prAnalysis.description) >= 50
    /\ feedback.code_quality.score = 8

\* the end-to-end scenario: one modified file src/auth.ts with 300 additions
\* and 250 deletions, a 10-character description, one commit
EndToEndScenario ==
    /\ rawFiles = <<RawFile("src/auth.ts", 300, 250)>>
    /\ Len(rawCommits) = 1
    /\ rawPR.body = "short desc"

\* C3 as stated: the scenario yields code_quality.score = 5 and grade C, the
\* only deductions being large-diff, no-tests and short-description.
ScenarioScoresFive ==
    (epc = "scored" /\ EndToEndScenario) =>
        /\ feedback.code_quality.score = 5
        /\ feedback.code_quality.grade = "C"
        /\ feedback.code_quality.concerns =
             <<"Large PR with many changes - consider breaking into smaller PRs",
               "No test files detected - consider adding tests for new functionality",
               "PR description is brief - consider adding more context">>

\* C3 amended: the scenario yields code_quality.score = 3 and grade D, the
\* deductions being large-diff (-2), no-tests (-2), no-documentation (-1),
\* short-description (-1) and one xl file (-1).
ScenarioScoresThree ==
    (epc = "scored" /\ EndToEndScenario) =>
        /\ feedback.code_quality.score = 3
        /\ feedback.code_quality.grade = "D"
        /\ feedback.code_quality.concerns =
             <<"Large PR with many changes - consider breaking into smaller PRs",
               "No test files detected - consider adding tests for new functionality",
               "Consider updating documentation for significant changes",
               "PR description is brief - consider adding more context",
               "1 files with extensive changes - review carefully">>

\* C3 witness: the scenario has been normalized and scored.
ScenarioScored ==
    /\ epc = "scored"
    /\ EndToEndScenario
    /\ Len(prAnalysis.description) = 10
    /\ feedback.code_quality.score = 3

\* C4 as stated: in the scenario (550 total changes, one file) the
\* normalizer's change_complexity is high.
ScenarioComplexityHigh ==
    (epc \in {"normalized", "scored"} /\ EndToEndScenario) =>
        prAnalysis.diff_summary.change_complexity = "high"

\* C4 amended: in the scenario (550 total changes, one file) the normalizer's
\* change_complexity is very_high, 550 exceeding the high band's 500.
ScenarioComplexityVeryHigh ==
    (epc \in {"normalized", "scored"} /\ EndToEndScenario) =>
        prAnalysis.diff_summary.change_complexity = "very_high"

\* C4 witness: the scenario has been normalized, with 550 changes in one file.
ScenarioNormalized ==
    /\ epc = "normalized"
    /\ EndToEndScenario
    /\ prAnalysis.diff_summary.total_changes = 550
    /\ prAnalysis.diff_summary.files_count = 1

\* C5: change_complexity is the first matching band in the order low, medium,
\* high, very_high; (50, 5) gives low and (51, 5) gives medium; the result is
\* one of the four labels for every non-negative input, files_count = 0 included.
ComplexityIsFirstMatchingBand ==
    ccResult # Absent =>
        /\ ccResult \in {"low", "medium", "high", "very_high"}
        /\ ccResult = "low" <=> (ccTotal <= 50 /\ ccFiles <= 5)
        /\ ccResult = "medium" <=>
              /\ ~(ccTotal <= 50 /\ ccFiles <= 5)
              /\ ccTotal <= 200 /\ ccFiles <= 15
              /\ ccFiles # 0 /\ ccTotal <= 50 * ccFiles
        /\ ccResult = "high" <=>
              /\ ~(ccTotal <= 50 /\ ccFiles <= 5)
              /\ ~(ccTotal <= 200 /\ ccFiles <= 15 /\ ccFiles # 0 /\ ccTotal <= 50 * ccFiles)
              /\ ccTotal <= 500 /\ ccFiles <= 25
        /\ (ccTotal = 50 /\ ccFiles = 5) => ccResult = "low"
        /\ (ccTotal = 51 /\ ccFiles = 5) => ccResult = "medium"

\* C5 witness: the boundary pair (51, 5) has been assessed as medium.
ComplexityBoundaryAssessed ==
    ccTotal = 51 /\ ccFiles = 5 /\ ccResult = "medium"

\* the grade bands, score by score (0..10)
GradeOfScore == <<"F", "F", "F", "D", "D", "C", "C", "B", "B", "A", "A">>
GradeRank(g) == CHOOSE r \in 1..5 : <<"F", "D", "C", "B", "A">>[r] = g

\* C6: grade is a function of the clamped code_quality.score alone, by the
\* bands >=9 A, >=7 B, >=5 C, >=3 D, else F, and a higher score never yields
\* a worse grade.
GradeIsMonotonicStep ==
    /\ epc = "scored" =>
          feedback.code_quality.grade = GradeOfScore[feedback.code_quality.score + 1]
    /\ \A s \in 0..10 : scoreToGrade(s) = GradeOfScore[s + 1]
    /\ \A s1, s2 \in 0..10 :
          s1 <= s2 => GradeRank(scoreToGrade(s1)) <= GradeRank(scoreToGrade(s2))

\* C6 witness: a run scored exactly at a band boundary.
GradeAtBoundary ==
    /\ epc = "scored"
    /\ feedback.code_quality.score = 7
    /\ feedback.code_quality.grade = "B"

\* C10 as stated: each best-practice check adds an entry to followed or to
\* needs_improvement for every input, except the draft check, which adds to
\* followed when draft and total_changes > 200 and otherwise adds nothing; in
\* particular the file-count check always contributes an entry.
EveryCheckContributes ==
    epc = "scored" =>
        LET bp == feedback.best_practices
            draftApplies == prAnalysis.draft /\ prAnalysis.diff_summary.total_changes > 200
        IN  /\ Len(bp.followed) + Len(bp.needs_improvement) = 4 + ind(draftApplies)
            /\ seqContains(bp.followed, "Uses draft status for work-in-progress")
                  <=> draftApplies
            /\ Len(fileCountCheck(prAnalysis)[1]) + Len(fileCountCheck(prAnalysis)[2]) = 1

(***************************************************************************)
(* Properties of the router's run.                                         *)
(***************************************************************************)
someFetchRejected == \E k \in FetchNames : fetch[k].state = "rejected"

answeredWithError ==
    /\ Len(responses) = 1
    /\ "isError" \in DOMAIN responses[1]
    /\ responses[1].isError = TRUE

\* C7: an analysis issues its three fetches together; it returns a PRAnalysis
\* only if all three have succeeded; once any of them has failed, whatever
\* the others do, no PRAnalysis is produced, generatePRFeedback is never
\* invoked and the request, when answered, is answered with an error.
AnalysisFailsFast ==
    call.name \in AnalysisTools =>
        /\ pc # "idle" =>
              \/ \A k \in FetchNames : fetch[k].state = "unstarted"
              \/ \A k \in FetchNames : fetch[k].state # "unstarted"
        /\ analysisResult.status = "returned" =>
              \A k \in FetchNames : fetch[k].state = "fulfilled"
        /\ feedbackCalls > 0 => analysisResult.status = "returned"
        /\ someFetchRejected =>
              /\ analysisResult.status # "returned"
              /\ feedbackCalls = 0
              /\ pc = "done" => answeredWithError

\* C7 witness: the commits fetch alone has failed, the pull-request fetch is
\* still in flight, and the feedback request has been answered with the error.
FailedWhileOthersInFlight ==
    /\ call.name = "generate_pr_feedback"
    /\ pc = "done"
    /\ fetch["commits"].state = "rejected"
    /\ fetch["pr"].state = "pending"
    /\ fetch["files"].state = "fulfilled"
    /\ answeredWithError

RequestFailed ==
    \/ call.name \notin ToolNames
    \/ call.name \in ToolNames /\ schemaIssues(call.name, call.args) # <<>>
    \/ someFetchRejected
    \/ analysisResult.status = "thrown"

\* C8: a tools/call request gets exactly one response and the handler never
\* throws: until the response a fetch is in flight or the handler can resume,
\* and it ends with one response; on a failure (unknown tool, invalid arguments, an
\* error of the gateway or of the analysis) the response is the text
\* "Error: <message>" of the error raised (the unknown-tool or validation
\* error, the error of a failed fetch, the error of the analysis), flagged
\* isError; otherwise it is the serialized result without the flag.
EveryCallAnsweredOnce ==
    /\ Len(responses) <= 1
    /\ (pc = "done") <=> (Len(responses) = 1)
    /\ pc \in {"awaiting", "analyzed"} =>
          fetchInFlight \/ analysisSettled \/ filesSettled \/ pc = "analyzed"
    /\ pc = "done" =>
          /\ Len(responses[1].content) = 1
          /\ responses[1].content[1].type = "text"
          /\ IF RequestFailed
             THEN /\ raised # NoError
                  /\ answeredWithError
                  /\ responses[1].content[1].text = "Error: " \o raised.message
                  /\ call.name \notin ToolNames =>
                        raised = ValidationError("Unknown tool: " \o call.name)
                  /\ (call.name \in ToolNames
                        /\ schemaIssues(call.name, call.args) # <<>>) =>
                        raised.name = "ValidationError"
                  /\ someFetchRejected =>
                        \E k \in FetchNames :
                            fetch[k].state = "rejected" /\ raised = fetch[k].error
             ELSE /\ raised = NoError
                  /\ "isError" \notin DOMAIN responses[1]
                  /\ responses[1].content[1].text[1] = "JSON"

\* C8 witness: a request answered with the message of an error that the
\* analysis raised after all three fetches had succeeded.
AnalysisErrorAnswered ==
    /\ pc = "done"
    /\ \A k \in FetchNames : fetch[k].state = "fulfilled"
    /\ raised.name = "TypeError"
    /\ answeredWithError

\* what C9 calls invalid arguments of generate_pr_feedback
isPositiveInteger(value) ==
    value.type = "number" /\ value.tenths % 10 = 0 /\ value.tenths > 0

ArgumentsClaimedInvalid ==
    \/ ~isPositiveInteger(call.args.pr_number)
    \/ /\ call.args.focus_areas.present
       /\ \/ \E i \in 1..Len(call.args.focus_areas.items) :
                call.args.focus_areas.items[i] \notin FocusArea
          \/ Len(call.args.focus_areas.items) > 5

\* C9 as stated: generate_pr_feedback called with a pr_number that is not a
\* positive integer, a focus area outside the enum, or more than 5 focus
\* areas is rejected with a validation error before any gateway fetch.
RouterRejectsInvalidFeedbackArgs ==
    (call.name = "generate_pr_feedback" /\ ArgumentsClaimedInvalid) =>
        /\ gatewayCalls = 0
        /\ pc = "done"
        /\ raised.name = "ValidationError"
        /\ answeredWithError

(***************************************************************************)
(* Properties of the summary score and of the security risk level.         *)
(***************************************************************************)
practicesCount ==
    Len(feedback.best_practices.followed) + Len(feedback.best_practices.needs_improvement)

\* C11: in every run of generatePRFeedback the denominator followed.length +
\* needs_improvement.length of the best-practices ratio is not zero and
\* summary_score is a number, not NaN, also for no files and no commits.
RatioDenominatorNonZero ==
    epc = "scored" =>
        /\ practicesCount > 0
        /\ feedback.summary_score \in Int

\* C11 witness: a pull request without files and without commits has been
\* scored.
EmptyPullRequestScored ==
    /\ epc = "scored"
    /\ rawFiles = <<>>
    /\ rawCommits = <<>>
    /\ practicesCount > 0

abs(x) == IF x < 0 THEN -x ELSE x

\* C12: summary_score is code_quality.score minus the risk penalty (critical
\* 3, high 2, medium 1, low 0) plus (followedRatio - 0.5) * 2, rounded to one
\* decimal and clamped to [0,10]; before the clamp it exceeds the quality
\* score by at most 1 and falls below it by at most penalty + 1.  In tenths,
\* with f followed and n needing improvement, the unclamped value u is the
\* integer nearest to 10 * (score - penalty + (f - n) / (f + n)).
SummaryScoreFollowsFormula ==
    epc = "scored" =>
        LET q == feedback.code_quality.score
            level == feedback.security_assessment.risk_level
            p == CASE level = "critical" -> 3 [] level = "high" -> 2
                   [] level = "medium" -> 1 [] level = "low" -> 0
            f == Len(feedback.best_practices.followed)
            n == Len(feedback.best_practices.needs_improvement)
        IN  \E u \in -40..110 :
                /\ 2 * abs((f + n) * u - 10 * ((q - p) * (f + n) + (f - n))) <= f + n
                /\ u <= 10 * q + 10
                /\ u >= 10 * q - 10 * (p + 1)
                /\ feedback.summary_score = (IF u < 0 THEN 0 ELSE IF u > 100 THEN 100 ELSE u)

\* C12 witness: a run with a high security risk whose summary score, not
\* held by the clamp, is not a whole number.
SummaryScoreWithPenaltyAndRatio ==
    /\ epc = "scored"
    /\ feedback.security_assessment.risk_level = "high"
    /\ feedback.summary_score \in 1..99
    /\ feedback.summary_score % 10 # 0

\* C13: risk_level is high whenever a vulnerability was found, whatever the
\* number of considerations; otherwise medium with 3 or more considerations;
\* otherwise low.
RiskLevelFollowsFindings ==
    epc = "scored" =>
        LET security == feedback.security_assessment
        IN  security.risk_level =
                (IF Len(security.vulnerabilities_found) > 0 THEN "high"
                 ELSE IF Len(security.considerations) >= 3 THEN "medium"
                 ELSE "low")

\* C13 witness: a run with a vulnerability and three considerations, rated
\* high.
VulnerabilityOutweighsConsiderations ==
    /\ epc = "scored"
    /\ Len(feedback.security_assessment.vulnerabilities_found) = 1
    /\ Len(feedback.security_assessment.considerations) = 3
    /\ feedback.security_assessment.risk_level = "high"

emittedSuggestions ==
    (IF focusAreas.present THEN forEachFocusSuggestions(prAnalysis, focusAreas.items)
     ELSE <<>>)
    \o (IF hasNewFeatures(prAnalysis)
        THEN <<"Consider adding feature flags for gradual rollout",
               "Ensure error handling covers edge cases for new functionality">>
        ELSE <<>>)
    \o (IF hasBreakingChanges(prAnalysis)
        THEN <<"Update migration guide for breaking changes",
               "Consider deprecation warnings before removing functionality">>
        ELSE <<>>)
    \o (IF prAnalysis.diff_summary.change_complexity = "very_high"
        THEN <<"Consider breaking this PR into smaller, focused changes",
               "Add comprehensive testing for complex changes">>
        ELSE <<>>)

firstIndexOf(seq, x) == CHOOSE i \in 1..Len(seq) : seq[i] = x /\ \A h \in 1..(i - 1) : seq[h] # x

\* C15: the suggestions of generatePRFeedback never hold the same string
\* twice, hold exactly the strings emitted, and keep them in the order of
\* their first occurrence: focus-area advice in the order of the focus areas,
\* then new-feature, breaking-change and very-high-complexity advice.
SuggestionsDistinctInFirstOccurrenceOrder ==
    epc = "scored" =>
        LET s == feedback.suggestions
            e == emittedSuggestions
        IN  /\ \A i, j \in 1..Len(s) : i # j => s[i] # s[j]
            /\ {s[i] : i \in 1..Len(s)} = {e[i] : i \in 1..Len(e)}
            /\ \A i, j \in 1..Len(s) :
                  i < j => firstIndexOf(e, s[i]) < firstIndexOf(e, s[j])

\* C15 witness: a focus area given twice, its advice emitted twice and
\* returned once, followed by general advice.
RepeatedFocusAreaScored ==
    /\ epc = "scored"
    /\ focusAreas = Areas(<<"performance", "testing", "performance">>)
    /\ Len(emittedSuggestions) = 8
    /\ Len(feedback.suggestions) = 6

\* C18: for every file list, total_changes = total_additions +
\* total_deletions, files_count is the number of files, and total_changes is
\* the sum of the per-file changes of files_changed (and of the raw
\* additions and deletions); for the empty list all totals are zero and
\* change_complexity is low.
DiffSummaryTotalsAgree ==
    epc \in {"normalized", "scored"} =>
        LET summary == prAnalysis.diff_summary
            files == prAnalysis.files_changed
        IN  /\ summary.total_changes = summary.total_additions + summary.total_deletions
            /\ summary.files_count = Len(rawFiles)
            /\ Len(files) = Len(rawFiles)
            /\ summary.total_changes = sumOf([i \in 1..Len(files) |-> files[i].changes])
            /\ summary.total_additions = sumOf([i \in 1..Len(rawFiles) |-> rawFiles[i].additions])
            /\ summary.total_deletions = sumOf([i \in 1..Len(rawFiles) |-> rawFiles[i].deletions])
            /\ rawFiles = <<>> =>
                  /\ summary.total_additions = 0
                  /\ summary.total_deletions = 0
                  /\ summary.total_changes = 0
                  /\ summary.files_count = 0
                  /\ summary.change_complexity = "low"

\* C18 witness: a list of three files, with additions and deletions, has
\* been summarized.
SeveralFilesSummarized ==
    /\ epc = "normalized"
    /\ Len(rawFiles) = 3
    /\ prAnalysis.diff_summary.total_additions = 62
    /\ prAnalysis.diff_summary.total_deletions = 39
    /\ prAnalysis.diff_summary.total_changes = 101

\* one breaking-change detection over the commit list
breakingChangeDetected ==
    \E i \in 1..Len(prAnalysis.commits) :
        \/ includes(prAnalysis.commits[i].message, "BREAKING")
        \/ includes(prAnalysis.commits[i].message, "!:")

trueRiskFactors ==
    ind(prAnalysis.diff_summary.total_changes > 300)
    + ind(Len(prAnalysis.files_changed) > 15)
    + ind(\E i \in 1..Len(prAnalysis.files_changed) :
              isSecuritySensitiveFile(prAnalysis.files_changed[i].filename))
    + ind(breakingChangeDetected)

\* C19: change_risk is high with 3 or more true factors among total_changes
\* > 300, files > 15, a security-sensitive file name and a breaking-change
\* commit, medium with exactly 2 and low with fewer, the breaking-change
\* factor being that of a single detection over the commit list, also for
\* the empty commit list.
ChangeRiskCountsFactors ==
    epc = "scored" =>
        feedback.complexity_analysis.change_risk =
            (IF trueRiskFactors >= 3 THEN "high"
             ELSE IF trueRiskFactors = 2 THEN "medium"
             ELSE "low")

\* C19 witness: a run rated high on three factors, the breaking-change commit
\* among them.
HighRiskWithBreakingChange ==
    /\ epc = "scored"
    /\ breakingChangeDetected
    /\ trueRiskFactors = 3
    /\ feedback.complexity_analysis.change_risk = "high"

ReadyClause == "Ready for review and merge with minimal concerns."
MinorClause == "Requires minor improvements before merge."
SignificantClause == "Requires significant improvements before merge."

\* C20: overall_assessment closes with the ready-to-merge clause exactly when
\* code_quality.score >= 8 and risk_level is low, with the minor-improvements
\* clause when that fails and score >= 6, and with the significant-
\* improvements clause otherwise; no feedback with a vulnerability closes
\* with the ready-to-merge clause.
ClosingClauseFollowsScoreAndRisk ==
    epc = "scored" =>
        LET score == feedback.code_quality.score
            security == feedback.security_assessment
            text == feedback.overall_assessment
        IN  /\ endsWith(text, IF score >= 8 /\ security.risk_level = "low" THEN ReadyClause
                              ELSE IF score >= 6 THEN MinorClause
                              ELSE SignificantClause)
            /\ endsWith(text, ReadyClause) <=> (score >= 8 /\ security.risk_level = "low")
            /\ Len(security.vulnerabilities_found) > 0 => ~endsWith(text, ReadyClause)

\* C20 witness: a run of quality score 8 or more with a vulnerability,
\* closed with the minor-improvements clause.
GoodScoreWithVulnerabilityNotReady ==
    /\ epc = "scored"
    /\ feedback.code_quality.score >= 8
    /\ Len(feedback.security_assessment.vulnerabilities_found) > 0
    /\ endsWith(feedback.overall_assessment, MinorClause)

(***************************************************************************)
(* The test-file and merge-commit predicates as the specification words    *)
(* them.                                                                   *)
(***************************************************************************)
TestDirectories == {"test", "__tests__", "tests"}

\* a .test. or .spec. name ending in a known extension, or a directory
\* segment of the path, the first one included, named as a test directory
testFileAsStated(filename) ==
    LET segments == split(filename, "/")
    IN  \/ \E kind \in {".test.", ".spec."}, extension \in TestExtensions :
               endsWith(filename, kind \o extension)
        \/ \E i \in 1..(Len(segments) - 1) : segments[i] \in TestDirectories

\* C16 as stated: a file is a test file exactly when its name has .test. or
\* .spec. before a known extension at its end, or its path has a directory
\* segment named test, __tests__ or tests at any position, the first
\* included (tests/foo.py).
TestFileBySegmentAnywhere ==
    "isTestFile" \in applied => (testFile <=> testFileAsStated(txt))

\* C17 as stated: is_merge_commit is true exactly when the message, compared
\* case-insensitively, starts with "merge " or contains "merge pull request"
\* or contains "merge branch".
MergeCommitCaseInsensitive ==
    "isMergeCommit" \in applied =>
        (mergeCommit <=>
            \/ startsWith(toLowerCase(txt), "merge ")
            \/ includes(toLowerCase(txt), "merge pull request")
            \/ includes(toLowerCase(txt), "merge branch"))

(***************************************************************************)
(* The review-time estimate.                                               *)
(***************************************************************************)
\* 0.5 * total rounded half up, capped at 60
roundedChangeTime(total) == IF total >= 120 THEN 60 ELSE (total + 1) \div 2

ReviewTimeFollowsFormula ==
    rtpc = "estimated" =>
        /\ reviewTime = 15 + 3 * rtFiles + roundedChangeTime(rtTotal)
        /\ reviewTime >= 15
        /\ reviewTime <= 75 + 3 * rtFiles
        /\ (rtFiles = 3 /\ rtTotal = 40) => reviewTime = 44

ReviewTimeNeverDecreases ==
    rtpc = "estimated" => reviewTime' >= reviewTime

\* C21: estimated_review_time is round(15 + 3 * files_count +
\* min(0.5 * total_changes, 60)) for every input; it is at least 15 and at most
\* 75 + 3 * files_count, it never decreases when files or changes are added,
\* and it is 44 for 3 files and 40 changes.
ReviewTimeIsCappedAndMonotonic ==
    []ReviewTimeFollowsFormula /\ [][ReviewTimeNeverDecreases]_vars

\* a pull request whose changed lines are past the cap of 60 minutes
ReviewTimeAtCap ==
    rtpc = "estimated" /\ rtFiles = 3 /\ rtTotal = 121 /\ reviewTime = 84

(***************************************************************************)
(* Repeated invocations of the engine.                                     *)
(***************************************************************************)
EqualInputsGiveEqualFeedback ==
    \A i, j \in 1..Len(invocations) :
        (/\ analyses[invocations[i].holder] = analyses[invocations[j].holder]
         /\ invocations[i].areas = invocations[j].areas)
            => invocations[i].feedback = invocations[j].feedback

InputsKept == analyses' = analyses

decisiveCall(method) ==
    IF method = "getPullRequestStatus" THEN "pullsGet"
    ELSE CHOOSE c \in RemoteCallNames : c \in remoteCallsOf(method)

\* the HTTP status an error carries, 0 where it carries none
httpStatus(error) == IF error.status # 0 THEN error.status ELSE error.responseStatus

typedErrorFor(method, error) ==
    IF method = "getPullRequest" /\ error.status = 404
    THEN <<"PullRequestNotFoundError", 404>>
    ELSE CASE httpStatus(error) = 401 -> <<"AuthenticationError", 401>>
           [] httpStatus(error) = 403 -> <<"GitHubAPIError", 403>>
           [] httpStatus(error) = 404 -> <<"RepositoryNotFoundError", 404>>
           [] httpStatus(error) = 0 -> <<"GitHubAPIError", 500>>
           [] OTHER -> <<"GitHubAPIError", httpStatus(error)>>

everyFetchNotFound ==
    /\ fetch["pr"].error.name = "PullRequestNotFoundError"
    /\ fetch["files"].error.name = "RepositoryNotFoundError"
    /\ fetch["commits"].error.name = "RepositoryNotFoundError"

\* C24 as stated: when each of the three parallel fetches fails with a remote
\* 404, analyzePullRequest fails with the pull-request-not-found error whichever
\* of the fetches fails first.
MissingPullRequestReportedInEveryOrder ==
    (analysisResult.status = "thrown" /\ everyFetchNotFound) =>
        analysisResult.error.name = "PullRequestNotFoundError"

(***************************************************************************)
(* The test client's requests.                                             *)
(***************************************************************************)
RequestsSettledAtMostOnce ==
    /\ \A i, j \in 1..Len(issued) : i < j => issued[i] < issued[j]
    /\ \A id \in 1..MaxRequests :
        /\ Len(settlements[id]) <= 1
        /\ id \in pendingRequests <=> (id <= messageId /\ settlements[id] = <<>>)
        /\ (id <= messageId /\ id \notin timers) => Len(settlements[id]) = 1
        /\ id > messageId => settlements[id] = <<>>

SettlementIsFinal ==
    \A id \in 1..MaxRequests :
        settlements[id] # <<>> =>
            /\ settlements'[id] = settlements[id]
            /\ id \notin pendingRequests'

\* C25: every request of the test client gets a fresh id greater than all
\* earlier ids; its promise is settled exactly once, by the matching response
\* or by the timeout, whichever comes first; the pending entry is removed at
\* settlement, so a later response or timeout, a duplicate response or a line
\* with an unknown id changes nothing.
RequestsSettleExactlyOnce ==
    []RequestsSettledAtMostOnce /\ [][SettlementIsFinal]_vars

\* three requests, one settled by each way, with every timer fired and more
\* lines received than requests answered
EveryWayOfSettling ==
    /\ messageId = 3
    /\ timers = {}
    /\ delivered = MaxLines
    /\ {settlements[id][1] : id \in 1..3}
           = {"resolve(result)", "reject(error)", "reject(timeout)"}

(***************************************************************************)
(* The server's start-up and shutdown.                                     *)
(***************************************************************************)
\* C26: the transport is connected and isConnected set only after the health
\* check returned healthy; after an unhealthy health check run() has failed
\* with an authentication error, the transport was never connected,
\* isConnected is false and the process has exited with code 1; after SIGINT
\* or SIGTERM isConnected is false and the process has exited with code 0.
StartupGatedByHealthCheck ==
    /\ (transport # "unconnected" \/ isConnected \/ served > 0) =>
            healthStatus.status = "healthy"
    /\ isConnected => transport = "connected"
    /\ healthStatus.status = "unhealthy" =>
            /\ startupError.name = "AuthenticationError"
            /\ transport = "unconnected"
            /\ ~isConnected
            /\ exit = Exited(1)
    /\ processEvent \in {"SIGINT", "SIGTERM"} =>
            /\ ~isConnected
            /\ exit = Exited(0)

\* a start with a rejected token
UnhealthyStartExits ==
    /\ healthStatus.status = "unhealthy"
    /\ healthStatus.error = "GitHub token is invalid or expired"
    /\ startupError.name = "AuthenticationError"
    /\ exit = Exited(1)

(***************************************************************************)
(* getPullRequestStatus and getFileContent.                                *)
(***************************************************************************)
\* C27: getPullRequestStatus returns the status with an empty checks list when
\* the check-runs fetch fails, and throws a typed error when the pull-request
\* fetch fails, in every order of completion of the two fetches; it returns no
\* status record without the pull request's data.
StatusAbsorbsCheckRunsFailure ==
    LET pulls  == gremote["pullsGet"]
        checks == gremote["checksListForRef"]
    IN  (gcall.method = "getPullRequestStatus" /\ gpc = "returned") =>
            /\ pulls.state = "settled"
            /\ pulls.outcome.ok =>
                /\ gresult.state = "fulfilled"
                /\ checks.state = "settled"
                /\ gresult.value.number = pulls.outcome.data.number
                /\ gresult.value.title = pulls.outcome.data.title
                /\ Len(gresult.value.checks) =
                       IF checks.outcome.ok THEN Len(checks.outcome.data.check_runs) ELSE 0
            /\ ~pulls.outcome.ok =>
                /\ gresult.state = "rejected"
                /\ isAppError(gresult.error)

\* the status of a pull request whose check runs could not be fetched
StatusWithoutCheckRuns ==
    /\ gcall.method = "getPullRequestStatus"
    /\ gpc = "returned"
    /\ ~gremote["checksListForRef"].outcome.ok
    /\ gremote["checksListForRef"].outcome.error.status = 403
    /\ gresult.state = "fulfilled"
    /\ gresult.value.checks = <<>>

\* C30 as stated: when the remote call succeeds and the response carries no
\* content, getFileContent fails with an upstream API error whose message is
\* "File content not available" and whose status code is 404.
MissingContentReportedAsNotFound ==
    LET remote == gremote["reposGetContent"]
    IN  (/\ gcall.method = "getFileContent"
         /\ gpc = "returned"
         /\ remote.outcome.ok
         /\ ~(remote.outcome.data.hasContent /\ remote.outcome.data.content # "")) =>
            /\ gresult.state = "rejected"
            /\ gresult.error.name = "GitHubAPIError"
            /\ gresult.error.message = "File content not available"
            /\ gresult.error.statusCode = 404

(***************************************************************************)
(* The ranges of the quality score and of the security assessment.         *)
(***************************************************************************)
\* the deductions of the rule table that apply to an analysis
qualityDeductions(analysis) ==
    LET total == analysis.diff_summary.total_changes
        files == analysis.files_changed
    IN  2 * ind(total > 500) + ind(Len(files) > 20)
        + 2 * ind(~hasTestFiles(files) /\ total > 50)
        + ind(~hasDocumentationFiles(files) /\ total > 100)
        + ind(Len(analysis.description) < 50) + ind(Len(analysis.commits) > 20)
        + ind(\E i \in 1..Len(files) : files[i].size_category = "xl")

\* C28: code_quality.score is a whole number from 1 to 10: the deductions
\* total at most 9, so the score is 10 minus the deductions without any help
\* from the clamp, 0 is never produced, and grade F is given exactly to the
\* scores 1 and 2.
QualityScoreAtLeastOne ==
    epc = "scored" =>
        /\ qualityDeductions(prAnalysis) \in 0..9
        /\ feedback.code_quality.score = 10 - qualityDeductions(prAnalysis)
        /\ feedback.code_quality.score \in 1..10
        /\ feedback.code_quality.grade = "F" <=> feedback.code_quality.score \in {1, 2}

\* every deduction applied at once
EveryDeductionApplied ==
    /\ epc = "scored"
    /\ qualityDeductions(prAnalysis) = 9
    /\ feedback.code_quality.score = 1
    /\ feedback.code_quality.grade = "F"
    /\ Len(feedback.code_quality.concerns) = 7

\* C29: risk_level is never critical: vulnerabilities_found has at most one
\* entry, considerations at most three, recommendations as many as
\* considerations, and risk_level is low, medium or high; so the penalty of 3
\* is never applied, and the summary score before its clamp, which is
\* score - penalty + (f - n) / (f + n) rounded to a tenth, is at least
\* code_quality.score - 3.
RiskNeverCritical ==
    epc = "scored" =>
        LET security == feedback.security_assessment
            q == feedback.code_quality.score
            p == riskPenalty(security.risk_level)
            f == Len(feedback.best_practices.followed)
            n == Len(feedback.best_practices.needs_improvement)
        IN  /\ Len(security.vulnerabilities_found) <= 1
            /\ Len(security.considerations) <= 3
            /\ Len(security.recommendations) = Len(security.considerations)
            /\ security.risk_level \in {"low", "medium", "high"}
            /\ p <= 2
            /\ (q - p) * (f + n) + (f - n) >= (q - 3) * (f + n)
            /\ feedback.summary_score >= Max(0, 10 * (q - 3))

\* the most the security assessment can hold: a vulnerability and three
\* considerations, with the summary score 3 below the quality score
MostSevereAssessment ==
    /\ epc = "scored"
    /\ Len(feedback.security_assessment.vulnerabilities_found) = 1
    /\ Len(feedback.security_assessment.considerations) = 3
    /\ Len(feedback.security_assessment.recommendations) = 3
    /\ feedback.best_practices.followed = <<>>
    /\ feedback.summary_score = 10 * (feedback.code_quality.score - 3)
====
